---- MODULE Spec2Model ----
(***************************************************************************)
(* Terrain height field and road ribbon of the driving scene               *)
(* (EnhancedDrivingSimulation): generateHeightMap, the grid-backed height  *)
(* lookup installed by createTerrain, the vertex loop of createRoad and    *)
(* the direct-sampling getHeightAtPosition method, the river, the car and  *)
(* its per-frame physics, the UI handlers, and the road tiling of the      *)
(* plain DrivingSimulation.                                                *)
(*                                                                         *)
(* JavaScript numbers are modelled exactly: a number is a pair <<n, d>>,   *)
(* the reduced fraction n/d with d > 0, and NaN is the pair <<0, 0>>.      *)
(***************************************************************************)
EXTENDS Integers, Sequences, FiniteSets, TLC

VARIABLES
    perlin,      \* the noise generator (a stub with values in [-1,1])
    hmArgs,      \* generateHeightMap: the arguments and the seed z of the call
    heightMap,   \* generateHeightMap: the returned Float32Array (index -> number)
    resolution,  \* createTerrain: the grid resolution the lookup closure captured
    gridQuery,   \* the latest call of the grid-backed getHeightAtPosition
    roadArgs,    \* createRoad: control points, width, segments and height field
    road,        \* createRoad: what the vertex loop did
    config,      \* this.config: season and timeOfDay
    directCall,  \* the latest call of the getHeightAtPosition method
    phase,       \* position of the run
    heightLookup,\* what this.getHeightAtPosition resolves to: "method" or "grid"
    river,       \* createRiver: the river ribbon and its banks
    environment, \* updateEnvironment: the lighting and terrain colour applied
    keys,        \* this.keys
    carPhysics,  \* this.carPhysics
    car,         \* this.car: model, colour, position, rotation, lights, wheels
    camera,      \* this.camera.position
    carQueries,  \* updateCarPhysics: the height queries of the latest frame
    toggled,     \* toggleHeadlights: how the latest call ended
    counts,      \* frames and input events so far, and the latest frame time
    pressed,     \* the keys held down and the touch zones under a finger
    deer,        \* a deer of the scene: position, userData.animation
    driving,     \* DrivingSimulation: car, carSpeed, keys, camera, this.road
    scene        \* DrivingSimulation: the road and marking meshes of this.scene

carVars == <<keys, carPhysics, car, camera, carQueries, toggled, counts, pressed, deer>>

drivingVars == <<driving, scene>>

vars == <<perlin, hmArgs, heightMap, resolution, gridQuery, roadArgs, road,
          config, directCall, phase, heightLookup, river, environment,
          carVars, drivingVars>>

terrainVars == <<hmArgs, heightMap, resolution, roadArgs, road>>

----------------------------------------------------------------------------
(* Exact JavaScript number arithmetic.                                     *)

Abs(n) == IF n < 0 THEN -n ELSE n

RECURSIVE Gcd(_, _)
Gcd(a, b) == IF b = 0 THEN a ELSE Gcd(b, a % b)

NaN == <<0, 0>>

IsNaN(a) == a[2] = 0

\* Operators take their arguments by name; the operators of this section
\* bind each argument to its value first (x \in {a}), so that an argument is
\* evaluated once however often the operator uses it.

Reduced(n, d) ==
    IF d = 0 THEN NaN
    ELSE LET g == Gcd(Abs(n), Abs(d))
             s == IF d < 0 THEN -1 ELSE 1
         IN  <<(s * n) \div g, (s * d) \div g>>

\* the number n/d, reduced, d # 0; 0/0 is NaN
Num(n, d) == CHOOSE r \in {Reduced(x, y) : x \in {n}, y \in {d}} : TRUE

JsInt(n) == <<n, 1>>

\* the least common denominator of two numbers that are not NaN
Lcd(a, b) == (a[2] \div Gcd(a[2], b[2])) * b[2]

Sum(a, b) == IF IsNaN(a) \/ IsNaN(b) THEN NaN
             ELSE LET l == Lcd(a, b)
                  IN  Num(a[1] * (l \div a[2]) + b[1] * (l \div b[2]), l)

JsAdd(a, b) == CHOOSE r \in {Sum(x, y) : x \in {a}, y \in {b}} : TRUE

Difference(a, b) == IF IsNaN(a) \/ IsNaN(b) THEN NaN
                    ELSE LET l == Lcd(a, b)
                         IN  Num(a[1] * (l \div a[2]) - b[1] * (l \div b[2]), l)

JsSub(a, b) == CHOOSE r \in {Difference(x, y) : x \in {a}, y \in {b}} : TRUE

Product(a, b) == IF IsNaN(a) \/ IsNaN(b) THEN NaN
                 ELSE LET g == Gcd(Abs(a[1]), b[2])
                          h == Gcd(Abs(b[1]), a[2])
                      IN  Num((a[1] \div g) * (b[1] \div h),
                              (a[2] \div h) * (b[2] \div g))

JsMul(a, b) == CHOOSE r \in {Product(x, y) : x \in {a}, y \in {b}} : TRUE

\* a / b; the only division by zero the modelled code can make is 0 / 0
Quotient(a, b) == IF IsNaN(a) \/ IsNaN(b) THEN NaN
                  ELSE IF b[1] = 0 THEN NaN
                  ELSE Product(a, IF b[1] < 0 THEN <<-b[2], -b[1]>> ELSE <<b[2], b[1]>>)

JsDiv(a, b) == CHOOSE r \in {Quotient(x, y) : x \in {a}, y \in {b}} : TRUE

JsAbs(a) == CHOOSE r \in {<<Abs(x[1]), x[2]>> : x \in {a}} : TRUE

\* comparisons: every comparison with NaN is false
Below(a, b) == /\ ~IsNaN(a) /\ ~IsNaN(b)
               /\ a[1] * (Lcd(a, b) \div a[2]) < b[1] * (Lcd(a, b) \div b[2])
NotAbove(a, b) == /\ ~IsNaN(a) /\ ~IsNaN(b)
                  /\ a[1] * (Lcd(a, b) \div a[2]) <= b[1] * (Lcd(a, b) \div b[2])
JsLt(a, b) == \E x \in {a}, y \in {b} : Below(x, y)
JsLe(a, b) == \E x \in {a}, y \in {b} : NotAbove(x, y)
JsGt(a, b) == JsLt(b, a)
JsGe(a, b) == JsLe(b, a)

\* Math.floor of a number that is not NaN
JsFloor(a) == CHOOSE r \in {x[1] \div x[2] : x \in {a}} : TRUE

\* Math.min(...data), Math.max(...data) of an array without NaN
JsMin(data) ==
    LET S == {data[i] : i \in DOMAIN data}
    IN  CHOOSE m \in S : \A v \in S : JsLe(m, v)

JsMax(data) ==
    LET S == {data[i] : i \in DOMAIN data}
    IN  CHOOSE m \in S : \A v \in S : JsGe(m, v)

----------------------------------------------------------------------------
(* The noise primitive: perlin.noise(x, y, z) with values in [-1,1].       *)
(* A stub is either a single peak (value hi at one point, lo elsewhere) or *)
(* a lattice hash; NoiseDen is the resolution of its values.               *)

NoiseDen == 2
MaxCoef == 1
MaxSeed == 1

NoiseVals == {Num(k, NoiseDen) : k \in -NoiseDen .. NoiseDen}
Seeds == 0 .. MaxSeed

PeakStubs ==
    [kind : {"peak"}, px : 0 .. 1, py : 0 .. 1, pz : Seeds,
     hi : NoiseVals, lo : NoiseVals, a : {0}, b : {0}, c : {0}]

HashStubs ==
    [kind : {"hash"}, px : {0}, py : {0}, pz : {0},
     hi : {JsInt(0)}, lo : {JsInt(0)},
     a : 0 .. MaxCoef, b : 0 .. MaxCoef, c : 0 .. MaxCoef]

NoiseStubs == PeakStubs \cup HashStubs

\* the sample lattice of the hash stub: 64 = the largest quality of generateHeightMap
noise(p, x, y, z) ==
    IF p.kind = "peak"
    THEN IF x = JsInt(p.px) /\ y = JsInt(p.py) /\ z = JsInt(p.pz) THEN p.hi ELSE p.lo
    ELSE LET k == p.a * JsFloor(JsMul(x, JsInt(64)))
                  + p.b * JsFloor(JsMul(y, JsInt(64)))
                  + p.c * JsFloor(z)
         IN  Num((k % (2 * NoiseDen + 1)) - NoiseDen, NoiseDen)

----------------------------------------------------------------------------
(* generateHeightMap(width, height)                                        *)

steps == 4

RECURSIVE Pow4(_)
Pow4(j) == IF j = 0 THEN 1 ELSE 4 * Pow4(j - 1)

\* data[i] after the octaves 0 .. j-1 have been accumulated
RECURSIVE Accumulate(_, _, _, _, _)
Accumulate(p, width, z, i, j) ==
    IF j = 0 THEN JsInt(0)
    ELSE LET quality == JsInt(Pow4(j - 1))
             x == JsInt(i % width)
             y == JsInt(i \div width)
         IN  JsAdd(Accumulate(p, width, z, i, j - 1),
                   JsAbs(JsMul(noise(p, JsDiv(x, quality), JsDiv(y, quality), z),
                               quality)))

\* generateHeightMap without the division by the range
generateHeightMapNoRange(p, width, height, z) ==
    LET size  == width * height
        data  == [i \in 0 .. size - 1 |-> Accumulate(p, width, z, i, steps)]
        min   == JsMin(data)
    IN  [i \in 0 .. size - 1 |-> JsSub(data[i], min)]

generateHeightMap(p, width, height, z) ==
    LET size  == width * height
        data  == [i \in 0 .. size - 1 |-> Accumulate(p, width, z, i, steps)]
        min   == JsMin(data)
        max   == JsMax(data)
        range == JsSub(max, min)
    IN  [i \in 0 .. size - 1 |-> JsDiv(JsSub(data[i], min), range)]

----------------------------------------------------------------------------
(* createTerrain: the grid-backed lookup this.getHeightAtPosition = (x, z) *)
(* => ... over the height map hm and the resolution the closure captured.  *)
(* The result carries the grid indices the call read.                      *)

size == 1000
maxHeight == 30

\* heightMap[i]: undefined * maxHeight is NaN outside the array
HeightAt(hm, i) == IF i \in DOMAIN hm THEN JsMul(hm[i], JsInt(maxHeight)) ELSE NaN

TerrainFraction(x) == JsDiv(JsAdd(x, JsDiv(JsInt(size), JsInt(2))), JsInt(size))

\* a bounds test that forgets the z axis
OutsideTerrainXOnly(terrainX, terrainZ) ==
    JsLt(terrainX, JsInt(0)) \/ JsGt(terrainX, JsInt(1))

OutsideTerrain(terrainX, terrainZ) ==
    \/ JsLt(terrainX, JsInt(0)) \/ JsGt(terrainX, JsInt(1))
    \/ JsLt(terrainZ, JsInt(0)) \/ JsGt(terrainZ, JsInt(1))

Min2(a, b) == IF a < b THEN a ELSE b

\* a cell index without the clamp to the last cell
CellIndexUnclamped(res, terrainX) == JsFloor(JsMul(terrainX, JsInt(res - 1)))

CellIndex(res, terrainX) ==
    Min2(JsFloor(JsMul(terrainX, JsInt(res - 1))), res - 2)

\* an interpolation that forgets the weight 1 - frac of its first end
LerpUnweighted(a, b, frac) == JsAdd(a, JsMul(b, frac))

Lerp(a, b, frac) == JsAdd(JsMul(a, JsSub(JsInt(1), frac)), JsMul(b, frac))

Bilinear(hm, res, xIndex, zIndex, xFrac, zFrac) ==
    [height |-> Lerp(Lerp(HeightAt(hm, zIndex * res + xIndex),
                          HeightAt(hm, zIndex * res + xIndex + 1), xFrac),
                     Lerp(HeightAt(hm, (zIndex + 1) * res + xIndex),
                          HeightAt(hm, (zIndex + 1) * res + xIndex + 1), xFrac),
                     zFrac),
     reads |-> {zIndex * res + xIndex, zIndex * res + xIndex + 1,
                (zIndex + 1) * res + xIndex, (zIndex + 1) * res + xIndex + 1}]

\* the cell of the point, and the offsets of the point within it
CellLookup(hm, res, terrainX, terrainZ, xIndex, zIndex) ==
    CHOOSE answer \in
        {Bilinear(hm, res, xIndex, zIndex, xFrac, zFrac) :
            xFrac \in {JsSub(JsMul(terrainX, JsInt(res - 1)), JsInt(xIndex))},
            zFrac \in {JsSub(JsMul(terrainZ, JsInt(res - 1)), JsInt(zIndex))}} : TRUE

TerrainLookup(hm, res, terrainX, terrainZ) ==
    IF OutsideTerrain(terrainX, terrainZ)
    THEN [height |-> JsInt(0), reads |-> {}]
    ELSE CHOOSE answer \in
             {CellLookup(hm, res, terrainX, terrainZ, xIndex, zIndex) :
                 xIndex \in {CellIndex(res, terrainX)},
                 zIndex \in {CellIndex(res, terrainZ)}} : TRUE

getHeightAtPositionGrid(hm, res, x, z) ==
    CHOOSE answer \in
        {TerrainLookup(hm, res, terrainX, terrainZ) :
            terrainX \in {TerrainFraction(x)},
            terrainZ \in {TerrainFraction(z)}} : TRUE

----------------------------------------------------------------------------
(* The road curve: a THREE.CurvePath of one two-point CatmullRomCurve3 per *)
(* pair of consecutive control points.  A two-point centripetal spline is  *)
(* the straight segment between its points, and CurvePath samples its      *)
(* curves by arc length.  Control points are <<x, z>> with y = 0.          *)

\* the integer square root: the greatest s in lo .. hi with s * s <= n
RECURSIVE SqrtBetween(_, _, _)
SqrtBetween(n, lo, hi) ==
    IF lo = hi THEN lo
    ELSE LET mid == (lo + hi + 1) \div 2
         IN  IF mid * mid <= n THEN SqrtBetween(n, mid, hi)
             ELSE SqrtBetween(n, lo, mid - 1)

\* Math.sqrt of a perfect square below 2^30 (the model's lengths are whole)
ISqrt(n) == LET s == SqrtBetween(n, 0, 32767)
            IN  CHOOSE r \in {s} : r * r = n

SegmentLength(A, B) ==
    ISqrt((B[1] - A[1]) * (B[1] - A[1]) + (B[2] - A[2]) * (B[2] - A[2]))

\* CurvePath.getCurveLengths(): the cumulative length after curve i
RECURSIVE CurveLength(_, _)
CurveLength(points, i) ==
    IF i = 0 THEN 0
    ELSE CurveLength(points, i - 1) + SegmentLength(points[i], points[i + 1])

NumCurves(points) == IF Len(points) = 0 THEN 0 ELSE Len(points) - 1

\* the null a curve returns for a point it cannot sample
null == [isNull |-> TRUE, x |-> NaN, z |-> NaN]

\* CurvePath.getPoint(t): null when no curve reaches the distance t * length
LinePoint(A, B, u) ==
    [isNull |-> FALSE,
     x |-> JsAdd(JsInt(A[1]), JsMul(u, JsInt(B[1] - A[1]))),
     z |-> JsAdd(JsInt(A[2]), JsMul(u, JsInt(B[2] - A[2])))]

\* the point of the segment A-B that lies diff before its end
PointBetween(A, B, segmentLength, diff) ==
    LinePoint(A, B, IF segmentLength = 0 THEN JsInt(0)
                    ELSE JsSub(JsInt(1), JsDiv(diff, JsInt(segmentLength))))

PointOnCurve(points, i, d) ==
    PointBetween(points[i], points[i + 1], SegmentLength(points[i], points[i + 1]),
                 JsSub(JsInt(CurveLength(points, i)), d))

\* the curves whose end lies at or beyond the distance d
Reach(points, d) ==
    {i \in 1 .. NumCurves(points) : JsGe(JsInt(CurveLength(points, i)), d)}

Least(S) == CHOOSE k \in S : \A m \in S : k <= m

PointAtDistance(points, d) ==
    IF Reach(points, d) = {} THEN null
    ELSE PointOnCurve(points, Least(Reach(points, d)), d)

getPoint(points, t) ==
    PointAtDistance(points, JsMul(t, JsInt(CurveLength(points, NumCurves(points)))))

\* Vector3.normalize() of a horizontal vector: the zero vector stays zero
Unit(a, b) ==
    [x |-> Num(a, ISqrt(a * a + b * b)), z |-> Num(b, ISqrt(a * a + b * b))]

ReducedBy(p, q, g) ==
    IF g = 0 THEN [x |-> JsInt(0), z |-> JsInt(0)] ELSE Unit(p \div g, q \div g)

Scaled(v, l) ==
    IF l = 0 THEN [x |-> NaN, z |-> NaN]
    ELSE ReducedBy(v.x[1] * (l \div v.x[2]), v.z[1] * (l \div v.z[2]),
                   Gcd(Abs(v.x[1] * (l \div v.x[2])), Abs(v.z[1] * (l \div v.z[2]))))

Normalize(v) == Scaled(v, IF IsNaN(v.x) \/ IsNaN(v.z) THEN 0 ELSE Lcd(v.x, v.z))

\* Curve.getTangent(t): the normalised chord over t -+ 0.0001, clamped to [0,1]
Chord(pt1, pt2) == Normalize([x |-> JsSub(pt2.x, pt1.x), z |-> JsSub(pt2.z, pt1.z)])

getTangent(points, t) ==
    Chord(getPoint(points, IF JsLt(JsSub(t, Num(1, 10000)), JsInt(0)) THEN JsInt(0)
                           ELSE JsSub(t, Num(1, 10000))),
          getPoint(points, IF JsGt(JsAdd(t, Num(1, 10000)), JsInt(1)) THEN JsInt(1)
                           ELSE JsAdd(t, Num(1, 10000))))

----------------------------------------------------------------------------
(* createRoad: the plane geometry and the vertex loop.                     *)

clearance == Num(2, 10)

\* new THREE.PlaneGeometry(roadWidth, roadLength, 1, roadSegments): vertices
PlaneVertexCount(roadSegments) ==
    IF roadSegments < 0 THEN 0 ELSE 2 * (roadSegments + 1)

\* an index that forgets the stride of two vertices per sample
vertexIndexNoStride(i, j) == (i + j) * 3

vertexIndex(i, j) == (i * 2 + j) * 3

\* an offset of the whole width instead of half of it
vertexOffsetWhole(j, roadWidth) ==
    JsMul(JsInt(IF j = 0 THEN -1 ELSE 1), JsInt(roadWidth))

vertexOffset(j, roadWidth) ==
    JsDiv(JsMul(JsInt(IF j = 0 THEN -1 ELSE 1), JsInt(roadWidth)), JsInt(2))

\* the height field the road is laid on: the grid lookup, or one that is 0 everywhere
FieldHeight(field, hm, res, x, z) ==
    IF field = "flat" THEN JsInt(0) ELSE getHeightAtPositionGrid(hm, res, x, z).height

\* the normal of the ribbon: the tangent turned a quarter
Across(tangent) == Normalize([x |-> JsSub(JsInt(0), tangent.z), z |-> tangent.x])

\* one vertex write: the point moved along the normal, at height y
VertexAt(i, j, point, normal, offset, y) ==
    [i |-> i, j |-> j, offset |-> vertexIndex(i, j),
     x |-> JsAdd(point.x, JsMul(normal.x, offset)),
     y |-> y,
     z |-> JsAdd(point.z, JsMul(normal.z, offset))]

RoadVertex(field, hm, res, i, j, point, normal, width) ==
    VertexAt(i, j, point, normal, width,
             JsAdd(FieldHeight(field, hm, res, point.x, point.z), clearance))

RoadSample(points, roadWidth, field, hm, res, i, j, t) ==
    RoadVertex(field, hm, res, i, j, getPoint(points, t),
               Across(getTangent(points, t)), vertexOffset(j, roadWidth))

\* the two writes of sample i (j = 0, 1), in the order the loop makes them
RoadWrite(points, roadWidth, roadSegments, field, hm, res, i, j) ==
    RoadSample(points, roadWidth, field, hm, res, i, j,
               JsDiv(JsInt(i), JsInt(roadSegments)))

\* the loop reads point.x of every sample: a null point is a TypeError there
NullSamples(points, roadSegments) ==
    {i \in 0 .. roadSegments :
        getPoint(points, JsDiv(JsInt(i), JsInt(roadSegments))).isNull}

----------------------------------------------------------------------------
(* addRoadMarkings: the dashed centre line.                                *)

dashLength == 2
dashGap == 2
heightOffset == Num(1, 10)

\* the start parameter of dash i
DashT(i, numDashes) ==
    JsDiv(JsInt(i * (dashLength + dashGap)), JsInt(numDashes * (dashLength + dashGap)))

\* a dash that ends only where the next one starts
DashEndTNoGap(i, numDashes) ==
    JsAdd(DashT(i, numDashes),
          JsDiv(JsInt(dashLength + dashGap), JsInt(numDashes * (dashLength + dashGap))))

\* the end parameter of dash i
DashEndT(i, numDashes) ==
    JsAdd(DashT(i, numDashes),
          JsDiv(JsInt(dashLength), JsInt(numDashes * (dashLength + dashGap))))

\* iteration i takes one of the two breaks of the loop
DashBreaks(i, numDashes) ==
    JsGt(DashT(i, numDashes), JsInt(1)) \/ JsGt(DashEndT(i, numDashes), JsInt(1))

\* the first i at which a break is taken
DashBreak(numDashes) ==
    IF \A i \in 0 .. numDashes - 1 : ~DashBreaks(i, numDashes) THEN numDashes
    ELSE Least({i \in 0 .. numDashes - 1 : DashBreaks(i, numDashes)})

DashMesh(points, field, hm, res, i, t, endT, point, endPoint) ==
    [i |-> i, t |-> t, endT |-> endT,
     x |-> JsDiv(JsAdd(point.x, endPoint.x), JsInt(2)),
     y |-> JsAdd(FieldHeight(field, hm, res, point.x, point.z), heightOffset),
     z |-> JsDiv(JsAdd(point.z, endPoint.z), JsInt(2)),
     tangent |-> getTangent(points, t)]

\* the dash mesh of iteration i: its parameters, its position and its heading
Dash(points, numDashes, field, hm, res, i) ==
    DashMesh(points, field, hm, res, i, DashT(i, numDashes), DashEndT(i, numDashes),
             getPoint(points, DashT(i, numDashes)),
             getPoint(points, DashEndT(i, numDashes)))

\* getTangent reads its two sample points: a null one is a TypeError there
MarkingsFail(points, numDashes) ==
    DashBreak(numDashes) > 0 /\ getPoint(points, JsInt(0)).isNull

addRoadMarkings(points, numDashes, field, hm, res) ==
    IF MarkingsFail(points, numDashes) THEN [status |-> "TypeError", dashes |-> <<>>]
    ELSE [status |-> "ok",
          dashes |-> [k \in 1 .. DashBreak(numDashes) |->
                        Dash(points, numDashes, field, hm, res, k - 1)]]

\* the samples the vertex loop completes before it throws
LastSample(points, roadSegments) ==
    IF NullSamples(points, roadSegments) = {} THEN roadSegments
    ELSE Least(NullSamples(points, roadSegments)) - 1

RoadWrites(points, roadWidth, roadSegments, field, hm, res, last) ==
    [k \in 1 .. 2 * (last + 1) |->
       RoadWrite(points, roadWidth, roadSegments, field, hm, res,
                 (k - 1) \div 2, (k - 1) % 2)]

RoadBuilt(points, roadWidth, roadSegments, field, hm, res, complete, markings) ==
    [status |-> markings.status,
     vertexCount |-> PlaneVertexCount(roadSegments),
     writes |-> RoadWrites(points, roadWidth, roadSegments, field, hm, res,
                           LastSample(points, roadSegments)),
     added |-> complete,
     dashes |-> markings.dashes]

\* the road, whether the mesh reached this.scene.add(road), and the dashes
createRoad(points, roadWidth, roadSegments, numDashes, field, hm, res) ==
    RoadBuilt(points, roadWidth, roadSegments, field, hm, res,
              NullSamples(points, roadSegments) = {},
              IF NullSamples(points, roadSegments) = {}
              THEN addRoadMarkings(points, numDashes, field, hm, res)
              ELSE [status |-> "TypeError", dashes |-> <<>>])

----------------------------------------------------------------------------
(* createRiver: the river ribbon and its two banks.                        *)

riverWidth == 10
riverSegments == 20
bankWidth == 3
riverHeight == Num(-1, 2)
bankHeight == JsInt(0)

\* stands for the six control points of the river, whose leg lengths are
\* irrational: a winding course of five legs over the same part of the
\* terrain, 300 long, whose samples fall on whole coordinates
RiverControlPoints ==
    << <<100, -200>>, <<100, -150>>, <<160, -150>>, <<160, -90>>, <<100, -90>>,
       <<100, -20>> >>

\* the vertex j of sample i, displaced by offset along the normal
RibbonSample(points, i, j, offset, height, t) ==
    VertexAt(i, j, getPoint(points, t), Across(getTangent(points, t)), offset, height)

RibbonVertex(points, segments, i, j, offset, height) ==
    RibbonSample(points, i, j, offset, height, JsDiv(JsInt(i), JsInt(segments)))

RiverWrite(points, i, j) ==
    RibbonVertex(points, riverSegments, i, j, vertexOffset(j, riverWidth), riverHeight)

BankWrite(points, side, i, j) ==
    RibbonVertex(points, riverSegments, i, j,
                 JsAdd(JsDiv(JsInt(riverWidth * side), JsInt(2)),
                       JsInt((IF j = 0 THEN 0 ELSE side) * bankWidth)),
                 bankHeight)

createRiver(points) ==
    [status |-> "ok",
     vertexCount |-> PlaneVertexCount(riverSegments),
     writes |-> [k \in 1 .. 2 * (riverSegments + 1) |->
                   RiverWrite(points, (k - 1) \div 2, (k - 1) % 2)],
     banks |-> [side \in {-1, 1} |->
                  [k \in 1 .. 2 * (riverSegments + 1) |->
                     BankWrite(points, side, (k - 1) \div 2, (k - 1) % 2)]],
     added |-> TRUE]

----------------------------------------------------------------------------
(* getHeightAtPosition(x, z), the class method: four octaves of            *)
(* this.noise.perlin2, scaled, with the seasonal effect and the water      *)
(* floor.                                                                  *)

scale == Num(1, 100)
octaves == 4
waterHeight == JsInt(-3)

perlin2(p, u, v) == noise(p, u, v, JsInt(0))

\* height after the octaves i .. octaves-1 have been added to it
RECURSIVE OctaveSum(_, _, _, _, _, _, _)
OctaveSum(p, x, z, i, height, amplitude, frequency) ==
    IF i >= octaves THEN height
    ELSE OctaveSum(p, x, z, i + 1,
                   JsAdd(height,
                         JsMul(perlin2(p, JsMul(JsMul(x, scale), frequency),
                                          JsMul(JsMul(z, scale), frequency)),
                               amplitude)),
                   JsMul(amplitude, Num(1, 2)),
                   JsMul(frequency, JsInt(2)))

\* a water floor that is applied in winter too
getHeightAtPositionAlwaysFloored(p, season, x, z) ==
    LET summed == JsMul(OctaveSum(p, x, z, 0, JsInt(0), JsInt(1), JsInt(1)), JsInt(15))
        height == IF season = "winter"
                  THEN JsAdd(JsMul(summed, Num(8, 10)), JsInt(2))
                  ELSE summed
    IN  IF JsLt(height, waterHeight) THEN waterHeight ELSE height

\* a seasonal effect that also reads the time of day
getHeightAtPositionNightSnow(p, season, x, z) ==
    LET summed == JsMul(OctaveSum(p, x, z, 0, JsInt(0), JsInt(1), JsInt(1)), JsInt(15))
        snow == season = "winter" \/ config.timeOfDay = "night"
        height == IF snow THEN JsAdd(JsMul(summed, Num(8, 10)), JsInt(2)) ELSE summed
    IN  IF JsLt(height, waterHeight) /\ ~snow THEN waterHeight ELSE height

\* the winter snow cover
Seasonal(season, summed) ==
    IF season = "winter" THEN JsAdd(JsMul(summed, Num(8, 10)), JsInt(2)) ELSE summed

\* the water floor, which winter lifts
Floored(season, height) ==
    IF JsLt(height, waterHeight) /\ season # "winter" THEN waterHeight ELSE height

getHeightAtPosition(p, season, x, z) ==
    Floored(season,
            Seasonal(season,
                     JsMul(OctaveSum(p, x, z, 0, JsInt(0), JsInt(1), JsInt(1)),
                           JsInt(15))))

----------------------------------------------------------------------------
(* updateEnvironment (the later of the two methods of that name, which is  *)
(* the one the class keeps): the lighting of the time of day and the       *)
(* terrain colour of the season.  The terrain colour is only written once  *)
(* the terrain exists.                                                     *)

TerrainColor(season) ==
    CASE season = "winter" -> "#ffffff"
      [] season = "autumn" -> "#cc9966"
      [] season = "spring" -> "#66cc66"
      [] OTHER -> "#669933"

updateEnvironment(cfg) ==
    [lighting |-> cfg.timeOfDay, terrainColor |-> TerrainColor(cfg.season)]

----------------------------------------------------------------------------
(* The car: createCar, toggleHeadlights and updateCarPhysics.              *)

CarModels == {"sedan", "suv", "sports"}
CarColors == {"#ff0000", "#0000ff"}

\* no key is down and no finger is on the screen
NoInput == [keys |-> {}, touches |-> {}]

\* the scene before addDeer has placed the deer
NoDeer == [placed |-> FALSE]

NoKeys == [forward |-> FALSE, backward |-> FALSE, left |-> FALSE, right |-> FALSE,
           brake |-> FALSE, headlights |-> FALSE]

CarPhysics ==
    [speed |-> JsInt(0), maxSpeed |-> Num(8, 10), acceleration |-> Num(1, 100),
     deceleration |-> Num(5, 1000), turnSpeed |-> Num(3, 100),
     brakingForce |-> Num(2, 100), suspension |-> Num(5, 10)]

\* a new THREE.Group at the origin; the lights take their state from the config.
\* tilt holds the operands of the two atan2 calls that set rotation.x and .z
createCar(cfg) ==
    [model |-> cfg.carModel, color |-> cfg.carColor,
     position |-> [x |-> JsInt(0), y |-> JsInt(0), z |-> JsInt(0)],
     rotationY |-> JsInt(0),
     tilt |-> [pitchRise |-> JsInt(0), rollRise |-> JsInt(0)],
     steering |-> JsInt(0), wheelSpin |-> JsInt(0),
     emissiveIntensity |-> IF cfg.headlightsOn THEN 1 ELSE 0,
     spotlightIntensity |-> IF cfg.headlightsOn THEN 2 ELSE 0]

NoCar == [createCar([carModel |-> "none", carColor |-> "none", headlightsOn |-> FALSE])
            EXCEPT !.model = "none"]

\* toggleHeadlights: the flag and the two headlight meshes are updated, then
\* the statement of line 1228 reads the undeclared name spotlight, which is a
\* ReferenceError, so the loop over the spotlights is never reached
toggleHeadlights(cfg, theCar) ==
    LET on == ~cfg.headlightsOn
    IN  [config |-> [cfg EXCEPT !.headlightsOn = on],
         car |-> [theCar EXCEPT !.emissiveIntensity = IF on THEN 1 ELSE 0],
         outcome |-> "ReferenceError"]

\* a number cut to three decimals
Milli(a) == Num(JsFloor(JsMul(a, JsInt(1000))), 1000)

\* the leading terms of the sine and cosine series
SinSeries(a) == Milli(JsSub(a, JsDiv(JsMul(a, JsMul(a, a)), JsInt(6))))
CosSeries(a) == Milli(JsSub(JsInt(1), JsDiv(JsMul(a, a), JsInt(2))))

\* Math.sin and Math.cos of a small angle: the leading terms of their series,
\* to three decimals
Sin(a) == CHOOSE r \in {SinSeries(x) : x \in {a}} : TRUE
Cos(a) == CHOOSE r \in {CosSeries(x) : x \in {a}} : TRUE

\* a clamp that knows no lower limit
clampAbove(value, min, max) == IF JsLt(max, value) THEN max ELSE value

\* THREE.MathUtils.clamp
clamp(value, min, max) ==
    LET capped == IF JsLt(max, value) THEN max ELSE value
    IN  IF JsGt(min, capped) THEN min ELSE capped

\* speed moved towards 0 by amount, and past it
TowardsZeroAndPast(speed, amount) ==
    IF JsGt(speed, JsInt(0)) THEN JsSub(speed, amount)
    ELSE IF JsLt(speed, JsInt(0)) THEN JsAdd(speed, amount)
    ELSE speed

\* speed moved towards 0 by amount, stopping at 0
TowardsZero(speed, amount) ==
    IF JsGt(speed, JsInt(0))
    THEN LET slower == JsSub(speed, amount)
         IN  IF JsLt(slower, JsInt(0)) THEN JsInt(0) ELSE slower
    ELSE IF JsLt(speed, JsInt(0))
    THEN LET slower == JsAdd(speed, amount)
         IN  IF JsGt(slower, JsInt(0)) THEN JsInt(0) ELSE slower
    ELSE speed

\* the speed after the acceleration or the coasting step of one frame
Driven(physics, k, deltaTime) ==
    IF k.forward THEN JsAdd(physics.speed, JsMul(physics.acceleration, deltaTime))
    ELSE IF k.backward
    THEN JsSub(physics.speed, JsMul(physics.acceleration, deltaTime))
    ELSE TowardsZero(physics.speed, JsMul(physics.deceleration, deltaTime))

\* a brake that slows only a car that is not driven
BrakedCoasting(physics, k, deltaTime, driven) ==
    IF k.brake /\ ~k.forward /\ ~k.backward
    THEN TowardsZero(driven, JsMul(physics.brakingForce, deltaTime))
    ELSE driven

\* the brake step
Braked(physics, k, deltaTime, driven) ==
    IF k.brake THEN TowardsZero(driven, JsMul(physics.brakingForce, deltaTime))
    ELSE driven

\* the speed after the acceleration, brake and clamp steps of one frame
NextSpeed(physics, k, deltaTime) ==
    clamp(Braked(physics, k, deltaTime, Driven(physics, k, deltaTime)),
          JsMul(JsSub(JsInt(0), physics.maxSpeed), Num(1, 2)),
          physics.maxSpeed)

\* this.getHeightAtPosition(x, z): the own property createTerrain installed
\* shadows the method of the class
HeightQuery(lookup, hm, res, p, season, x, z) ==
    [x |-> x, z |-> z, by |-> lookup,
     height |-> IF lookup = "grid" THEN getHeightAtPositionGrid(hm, res, x, z).height
                ELSE getHeightAtPosition(p, season, x, z)]

\* the steering input of the frame
Turned(physics, k, deltaTime) ==
    IF k.right THEN JsSub(JsInt(0), JsMul(physics.turnSpeed, deltaTime))
    ELSE IF k.left THEN JsMul(physics.turnSpeed, deltaTime)
    ELSE JsInt(0)

\* the car turns only while |speed| > 0.01, at half rate in reverse
Moving(speed) == JsGt(JsAbs(speed), Num(1, 100))

\* a car that turns in reverse as fast as ahead
TurnFactorEven(speed) == JsInt(1)

TurnFactor(speed) == IF JsGt(speed, JsInt(0)) THEN JsInt(1) ELSE Num(1, 2)

\* this.getHeightAtPosition over the terrain w the frame sees
TerrainQuery(w, x, z) == HeightQuery(w.lookup, w.hm, w.res, w.p, w.season, x, z)

\* the suspension step: a tenth of the way to the height over the terrain
Suspended(physics, theCar, terrain) ==
    JsAdd(theCar.position.y,
          JsMul(JsSub(JsAdd(JsAdd(terrain.height, physics.suspension), JsInt(1)),
                      theCar.position.y),
                Num(1, 10)))

\* the frame's writes, given its motion m and the answers of its five queries
CarSettled(physics, theCar, deltaTime, m, terrain, forward, backward, right, left) ==
    [carPhysics |-> [physics EXCEPT !.speed = m.speed],
     car |-> [theCar EXCEPT
                !.rotationY = m.rotationY,
                !.steering = IF m.moving THEN JsMul(m.turned, JsInt(10)) ELSE @,
                !.position = [x |-> m.x, y |-> Suspended(physics, theCar, terrain),
                              z |-> m.z],
                !.tilt = [pitchRise |-> JsSub(forward.height, backward.height),
                          rollRise |-> JsSub(right.height, left.height)],
                !.wheelSpin = JsAdd(@, JsMul(JsMul(m.speed, JsInt(2)), deltaTime))],
     camera |-> [x |-> JsSub(m.x, JsMul(m.sin, JsInt(10))),
                 y |-> JsAdd(theCar.position.y, JsInt(5)),
                 z |-> JsSub(m.z, JsMul(m.cos, JsInt(10)))],
     queries |-> <<terrain, forward, backward, right, left>>]

\* the five height queries, in the order the frame makes them
CarProbed(physics, theCar, w, deltaTime, m) ==
    CHOOSE frame \in
        {CarSettled(physics, theCar, deltaTime, m, terrain, forward, backward, right, left) :
            terrain \in {TerrainQuery(w, m.x, m.z)},
            forward \in {TerrainQuery(w, JsAdd(m.x, JsMul(m.sin, JsInt(2))),
                                         JsAdd(m.z, JsMul(m.cos, JsInt(2))))},
            backward \in {TerrainQuery(w, JsSub(m.x, JsMul(m.sin, JsInt(2))),
                                          JsSub(m.z, JsMul(m.cos, JsInt(2))))},
            right \in {TerrainQuery(w, JsAdd(m.x, m.cos), JsSub(m.z, m.sin))},
            left \in {TerrainQuery(w, JsSub(m.x, m.cos), JsAdd(m.z, m.sin))}} : TRUE

CarMoved(physics, theCar, w, deltaTime, speed, turned, rotationY, sin, cos) ==
    CHOOSE frame \in
        {CarProbed(physics, theCar, w, deltaTime, m) :
            m \in {[speed |-> speed, turned |-> turned, moving |-> Moving(speed),
                    rotationY |-> rotationY, sin |-> sin, cos |-> cos,
                    x |-> JsAdd(theCar.position.x,
                                JsMul(JsMul(sin, speed), deltaTime)),
                    z |-> JsAdd(theCar.position.z,
                                JsMul(JsMul(cos, speed), deltaTime))]}} : TRUE

CarHeaded(physics, theCar, w, deltaTime, speed, turned, rotationY) ==
    CHOOSE frame \in
        {CarMoved(physics, theCar, w, deltaTime, speed, turned, rotationY, sin, cos) :
            sin \in {Sin(rotationY)}, cos \in {Cos(rotationY)}} : TRUE

CarTurned(physics, theCar, w, deltaTime, speed, turned) ==
    CHOOSE frame \in
        {CarHeaded(physics, theCar, w, deltaTime, speed, turned, rotationY) :
            rotationY \in {IF Moving(speed)
                           THEN JsAdd(theCar.rotationY, JsMul(turned, TurnFactor(speed)))
                           ELSE theCar.rotationY}} : TRUE

\* updateCarPhysics(deltaTime): the new speed, car and camera, and the five
\* height queries in the order the frame makes them
updateCarPhysics(physics, k, theCar, lookup, hm, res, p, season, deltaTime) ==
    CHOOSE frame \in
        {CarTurned(physics, theCar,
                   [lookup |-> lookup, hm |-> hm, res |-> res, p |-> p, season |-> season],
                   deltaTime, speed, turned) :
            speed \in {NextSpeed(physics, k, deltaTime)},
            turned \in {Turned(physics, k, deltaTime)}} : TRUE

----------------------------------------------------------------------------
(* DrivingSimulation (main1.js): the flat road of createRoad, the tiling  *)
(* of updateRoadPosition and the car of updateCarPosition.  A mesh of the  *)
(* scene is [id, kind, z]; this.road and this.roadMarkings refer to meshes.*)

roadSegmentLength == 500

nullMesh == [isNull |-> TRUE, id |-> 0, kind |-> "none", z |-> JsInt(0)]

Mesh(id, kind, z) == [isNull |-> FALSE, id |-> id, kind |-> kind, z |-> z]

RECURSIVE MaxId(_)
MaxId(sc) ==
    IF sc = <<>> THEN 0
    ELSE LET rest == MaxId(Tail(sc))
         IN  IF Head(sc).id > rest THEN Head(sc).id ELSE rest

\* scene.add that drops what the scene held
sceneAddReplacing(sc, mesh) == <<mesh>>

\* this.scene.add(mesh)
sceneAdd(sc, mesh) == Append(sc, mesh)

\* this.scene.remove(mesh): nothing happens for a mesh the scene does not hold
RECURSIVE sceneRemove(_, _)
sceneRemove(sc, mesh) ==
    IF sc = <<>> THEN <<>>
    ELSE IF Head(sc).id = mesh.id THEN sceneRemove(Tail(sc), mesh)
    ELSE <<Head(sc)>> \o sceneRemove(Tail(sc), mesh)

\* createRoad: the old road and markings leave the scene, new ones enter it
createRoadScene(sc, oldRoad, oldMarkings) ==
    LET cleared == sceneRemove(IF oldRoad.isNull THEN sc ELSE sceneRemove(sc, oldRoad),
                               IF oldMarkings.isNull THEN nullMesh ELSE oldMarkings)
        newRoad == Mesh(MaxId(sc) + 1, "road", JsInt(0))
        newMarkings == Mesh(MaxId(sc) + 2, "markings", JsInt(0))
    IN  [road |-> newRoad, roadMarkings |-> newMarkings,
         scene |-> sceneAdd(sceneAdd(cleared, newRoad), newMarkings)]

\* updateRoadPosition: the scene after the call (this.road is never reassigned)
updateRoadPosition(sim, sc) ==
    IF JsGt(JsAbs(sim.car.z), JsMul(JsInt(roadSegmentLength), Num(4, 10)))
    THEN LET newRoad == Mesh(MaxId(sc) + 1, "road",
                             JsAdd(sim.road.z, JsInt(roadSegmentLength)))
             newMarkings == Mesh(MaxId(sc) + 2, "markings", newRoad.z)
         IN  sceneAdd(sceneAdd(sc, newRoad), newMarkings)
    ELSE sc

\* updateCarPosition: the speed, the heading, the position and the camera
updateCarPosition(sim) ==
    LET k == sim.keys
        speed == IF k.forward
                 THEN LET faster == JsAdd(sim.carSpeed, sim.acceleration)
                      IN  IF JsGt(faster, sim.maxSpeed) THEN sim.maxSpeed ELSE faster
                 ELSE IF k.backward
                 THEN LET slower == JsSub(sim.carSpeed, sim.acceleration)
                          least == JsDiv(JsSub(JsInt(0), sim.maxSpeed), JsInt(2))
                      IN  IF JsLt(slower, least) THEN least ELSE slower
                 ELSE TowardsZero(sim.carSpeed, sim.deceleration)
        afterLeft == IF k.left THEN JsAdd(sim.car.rotationY, sim.turnSpeed)
                     ELSE sim.car.rotationY
        rotationY == IF k.right THEN JsSub(afterLeft, sim.turnSpeed) ELSE afterLeft
        x == JsAdd(sim.car.x, JsMul(Sin(rotationY), speed))
        z == JsAdd(sim.car.z, JsMul(Cos(rotationY), speed))
    IN  [sim EXCEPT
           !.carSpeed = speed,
           !.car = [x |-> x, y |-> sim.car.y, z |-> z, rotationY |-> rotationY],
           !.camera = [x |-> JsAdd(x, JsMul(Sin(rotationY), JsInt(-10))),
                       y |-> JsAdd(sim.car.y, JsInt(5)),
                       z |-> JsAdd(z, JsMul(Cos(rotationY), JsInt(-10)))]]

\* the key of a keyboard event and the flag of this.keys it drives
DrivingKeyFlag ==
    [ArrowUp |-> "forward", w |-> "forward", ArrowDown |-> "backward", s |-> "backward",
     ArrowLeft |-> "left", a |-> "left", ArrowRight |-> "right", d |-> "right"]

\* the simulation as its constructor leaves it
ConstructedDriving ==
    LET built == createRoadScene(<<>>, nullMesh, nullMesh)
    IN  [sim |-> [car |-> [x |-> JsInt(0), y |-> JsInt(0), z |-> JsInt(0),
                           rotationY |-> JsInt(0)],
                  carSpeed |-> JsInt(0), maxSpeed |-> Num(5, 10),
                  acceleration |-> Num(1, 100), deceleration |-> Num(5, 1000),
                  turnSpeed |-> Num(3, 100),
                  keys |-> [forward |-> FALSE, backward |-> FALSE,
                            left |-> FALSE, right |-> FALSE],
                  enginePlaying |-> FALSE,
                  camera |-> [x |-> JsInt(0), y |-> JsInt(5), z |-> JsInt(-10)],
                  road |-> built.road, roadMarkings |-> built.roadMarkings,
                  frames |-> 0],
         scene |-> built.scene]

----------------------------------------------------------------------------
(* The states before any of the modelled operations has run.               *)

Seasons == {"summer", "autumn", "winter", "spring"}
TimesOfDay == {"early-morning", "morning", "afternoon", "evening", "night"}

NoQuery == [called |-> FALSE, x |-> JsInt(0), z |-> JsInt(0),
            height |-> JsInt(0), reads |-> {}]
NoRoadArgs == [controlPoints |-> <<>>, roadWidth |-> 0, roadSegments |-> 0,
               field |-> "none"]
NoRoad == [status |-> "none", vertexCount |-> 0, writes |-> <<>>, added |-> FALSE,
           dashes |-> <<>>]
NoRiver == [status |-> "none", vertexCount |-> 0, writes |-> <<>>,
            banks |-> [side \in {-1, 1} |-> <<>>], added |-> FALSE]
NoCall == [called |-> FALSE, x |-> JsInt(0), z |-> JsInt(0),
           season |-> "summer", height |-> JsInt(0)]

Start ==
    /\ hmArgs = [width |-> 0, height |-> 0, z |-> JsInt(0)]
    /\ heightMap = <<>>
    /\ resolution = 0
    /\ gridQuery = NoQuery
    /\ roadArgs = NoRoadArgs
    /\ road = NoRoad
    /\ config = [season |-> "summer", timeOfDay |-> "afternoon",
                 headlightsOn |-> FALSE, carColor |-> "#ff0000", carModel |-> "sedan"]
    /\ directCall = NoCall
    /\ phase = "start"
    /\ heightLookup = "method"
    /\ river = NoRiver
    /\ environment = updateEnvironment(config)
    /\ keys = NoKeys
    /\ carPhysics = CarPhysics
    /\ car = NoCar
    /\ camera = [x |-> JsInt(0), y |-> JsInt(5), z |-> JsInt(-10)]
    /\ carQueries = <<>>
    /\ toggled = "none"
    /\ counts = [frames |-> 0, events |-> 0, deltaTime |-> JsInt(0)]
    /\ pressed = NoInput
    /\ deer = NoDeer
    /\ driving = ConstructedDriving.sim
    /\ scene = ConstructedDriving.scene

----------------------------------------------------------------------------
(* generateHeightMap on its inputs.                                        *)

MaxDim == 4

InitHeightMap == perlin \in NoiseStubs /\ Start

GenerateHeightMap ==
    /\ phase = "start"
    /\ \E width \in 1 .. MaxDim, height \in 1 .. MaxDim, z \in Seeds :
          /\ hmArgs' = [width |-> width, height |-> height, z |-> JsInt(z)]
          /\ heightMap' = generateHeightMap(perlin, width, height, JsInt(z))
    /\ phase' = "generated"
    /\ UNCHANGED <<perlin, resolution, gridQuery, roadArgs, road, config, directCall>>
    /\ UNCHANGED <<heightLookup, river, environment, carVars, drivingVars>>

NextHeightMap == GenerateHeightMap

SpecHeightMap == InitHeightMap /\ [][NextHeightMap]_vars

InUnitRange(v) == JsLe(JsInt(0), v) /\ JsLe(v, JsInt(1))

\* C1: every value of the grid generateHeightMap returns lies in [0,1], at
\* least one value equals 0 and at least one equals 1, for every width and
\* height with width * height >= 1 and every noise function.
C1_GridNormalised ==
    phase = "generated" =>
        /\ \A i \in DOMAIN heightMap : InUnitRange(heightMap[i])
        /\ \E i \in DOMAIN heightMap : heightMap[i] = JsInt(0)
        /\ \E i \in DOMAIN heightMap : heightMap[i] = JsInt(1)

\* the stub of C9: 1 at (0, 0, seed) and 0 everywhere else, on a 4 x 4 grid
SinglePeakCase ==
    /\ phase = "generated"
    /\ hmArgs.width = 4 /\ hmArgs.height = 4
    /\ perlin.kind = "peak" /\ perlin.px = 0 /\ perlin.py = 0
    /\ JsInt(perlin.pz) = hmArgs.z
    /\ perlin.hi = JsInt(1) /\ perlin.lo = JsInt(0)

\* C9: on a 4 x 4 grid with the noise stub that is 1 at (0, 0, seed) and 0
\* elsewhere, the grid has the value 1 in the cell x = 0, y = 0 and the
\* value 0 in every other cell.
C9_SinglePeak ==
    SinglePeakCase =>
        /\ DOMAIN heightMap = 0 .. 15
        /\ heightMap[0] = JsInt(1)
        /\ \A i \in 1 .. 15 : heightMap[i] = JsInt(0)

C9_Witness ==
    /\ SinglePeakCase
    /\ heightMap[0] = JsInt(1)
    /\ Cardinality({i \in DOMAIN heightMap : heightMap[i] = JsInt(1)}) = 1

----------------------------------------------------------------------------
(* The program: the constructor's createTerrain, then height queries.      *)
(* The source fixes resolution = 128; the lookup is checked on the grids   *)
(* of 2 .. MaxResolution nodes a side.                                     *)

MaxResolution == 3
PosStep == 250
QueryRange == 3

QueryCoords == {JsInt(k * PosStep) : k \in -QueryRange .. QueryRange}

\* the generators the terrain is built from: the constant one, three lattice
\* hashes and the single peak at the origin
TerrainStubs ==
    {p \in HashStubs : p.a <= 1 /\ p.b <= 1 /\ p.c = 0}
    \cup {p \in PeakStubs : /\ p.px = 0 /\ p.py = 0 /\ p.pz = 0
                             /\ p.hi = JsInt(1) /\ p.lo = JsInt(0)}

roadWidth == 15
roadSegments == 100
numDashes == 200

\* stands for the ten spiral control points, whose coordinates are irrational
RoadControlPoints == << <<0, -400>>, <<0, -200>>, <<0, 0>> >>

\* createTerrain with the road constants of createRoad as parameters
CreateTerrainRoad(points, width, segments, dashes, field) ==
    /\ phase = "start"
    /\ \E res \in 2 .. MaxResolution, z \in Seeds :
          /\ hmArgs' = [width |-> res, height |-> res, z |-> JsInt(z)]
          /\ heightMap' = generateHeightMap(perlin, res, res, JsInt(z))
          /\ resolution' = res
          /\ road' = createRoad(points, width, segments, dashes, field, heightMap', res)
    /\ roadArgs' = [controlPoints |-> points, roadWidth |-> width,
                    roadSegments |-> segments, field |-> field]
    /\ phase' = "terrain"
    /\ heightLookup' = "grid"
    /\ UNCHANGED <<perlin, gridQuery, config, directCall>>
    /\ UNCHANGED <<river, environment, carVars, drivingVars>>

CreateTerrain ==
    CreateTerrainRoad(RoadControlPoints, roadWidth, roadSegments, numDashes, "grid")

GridQuery ==
    /\ phase = "terrain"
    /\ \E x \in QueryCoords, z \in QueryCoords :
          gridQuery' = [called |-> TRUE, x |-> x, z |-> z,
                        height |-> getHeightAtPositionGrid(heightMap, resolution, x, z).height,
                        reads |-> getHeightAtPositionGrid(heightMap, resolution, x, z).reads]
    /\ UNCHANGED <<perlin, terrainVars, config, directCall, phase>>
    /\ UNCHANGED <<heightLookup, river, environment, carVars, drivingVars>>

Init == perlin \in TerrainStubs /\ Start

Next == CreateTerrain \/ GridQuery

Spec == Init /\ [][Next]_vars

\* a coordinate whose terrain fraction (x + size/2) / size is outside [0,1]
FractionOutside(x) ==
    LET fraction == JsDiv(JsAdd(x, JsInt(size \div 2)), JsInt(size))
    IN  JsLt(fraction, JsInt(0)) \/ JsGt(fraction, JsInt(1))

QueryOutside == FractionOutside(gridQuery.x) \/ FractionOutside(gridQuery.z)

\* C2: a query of the grid-backed lookup whose terrain fraction in x or in z
\* lies outside [0,1] returns exactly 0 and reads no cell of the height grid.
C2_OutsideIsZero ==
    (gridQuery.called /\ QueryOutside) =>
        gridQuery.height = JsInt(0) /\ gridQuery.reads = {}

\* an outside query of a terrain whose grid holds a non-zero height
C2_Witness ==
    /\ gridQuery.called
    /\ ~FractionOutside(gridQuery.x) /\ FractionOutside(gridQuery.z)
    /\ \E i \in DOMAIN heightMap : heightMap[i] = JsInt(1)
    /\ gridQuery.height = JsInt(0)

\* the corner heights of the cell a query read, and their greatest difference
CornerHeights(reads) == {HeightAt(heightMap, i) : i \in reads}

CornerSpread(reads) ==
    LET H == CornerHeights(reads)
        lo == CHOOSE m \in H : \A v \in H : JsLe(m, v)
        hi == CHOOSE m \in H : \A v \in H : JsGe(m, v)
    IN  JsSub(hi, lo)

CellOf(x, z) == <<CellIndex(resolution, TerrainFraction(x)),
                  CellIndex(resolution, TerrainFraction(z))>>

GridHeight(x, z) == getHeightAtPositionGrid(heightMap, resolution, x, z).height

\* closer than one grid cell (size / (resolution - 1)) in the plane
WithinOneCell(x1, z1, x2, z2) ==
    LET dx == JsSub(x2, x1)
        dz == JsSub(z2, z1)
        cell == JsDiv(JsInt(size), JsInt(resolution - 1))
    IN  JsLt(JsAdd(JsMul(dx, dx), JsMul(dz, dz)), JsMul(cell, cell))

InBounds(x, z) == ~FractionOutside(x) /\ ~FractionOutside(z)

\* the two heights differ by no more than the spread of the corners read
\* (over a grid of NaN: both heights are NaN)
WithinSpread(h1, h2, reads) ==
    IF \E h \in CornerHeights(reads) : IsNaN(h)
    THEN IsNaN(h1) /\ IsNaN(h2)
    ELSE JsLe(JsAbs(JsSub(h2, h1)), CornerSpread(reads))

\* C8 as stated: any in-bounds point less than one grid cell from an
\* in-bounds query has a height that differs from the query's by no more
\* than the greatest difference between the corner heights of the cell.
C8_NearbyWithinCornerSpread ==
    (gridQuery.called /\ ~QueryOutside) =>
        \A x \in QueryCoords, z \in QueryCoords :
            (InBounds(x, z) /\ WithinOneCell(gridQuery.x, gridQuery.z, x, z)) =>
                WithinSpread(gridQuery.height, GridHeight(x, z), gridQuery.reads)

\* C8, amended: any in-bounds point in the same grid cell as an in-bounds
\* query has a height that differs from the query's by no more than the
\* greatest difference between the corner heights of that cell; over a grid
\* of NaN both heights are NaN.
C8_SameCellWithinCornerSpread ==
    (gridQuery.called /\ ~QueryOutside) =>
        \A x \in QueryCoords, z \in QueryCoords :
            (InBounds(x, z) /\ CellOf(x, z) = CellOf(gridQuery.x, gridQuery.z)) =>
                WithinSpread(gridQuery.height, GridHeight(x, z), gridQuery.reads)

\* two points of one cell with different heights
C8_Witness ==
    /\ gridQuery.called /\ ~QueryOutside
    /\ \E x \in QueryCoords, z \in QueryCoords :
          /\ InBounds(x, z) /\ CellOf(x, z) = CellOf(gridQuery.x, gridQuery.z)
          /\ JsLt(JsInt(0), JsAbs(JsSub(GridHeight(x, z), gridQuery.height)))
          /\ <<x, z>> # <<gridQuery.x, gridQuery.z>>

\* the fractional offset of a coordinate within its cell
CellFraction(x) ==
    JsSub(JsMul(TerrainFraction(x), JsInt(resolution - 1)),
          JsInt(CellIndex(resolution, TerrainFraction(x))))

\* the query lies on a node of the grid, and the index of that node
OnNode == CellFraction(gridQuery.x)[2] = 1 /\ CellFraction(gridQuery.z)[2] = 1

NodeIndex ==
    (CellOf(gridQuery.x, gridQuery.z)[2] + CellFraction(gridQuery.z)[1]) * resolution
      + CellOf(gridQuery.x, gridQuery.z)[1] + CellFraction(gridQuery.x)[1]

\* an in-bounds query reads only indices of the grid, with offsets in [0,1]
ReadsInsideGrid ==
    /\ gridQuery.reads # {}
    /\ gridQuery.reads \subseteq 0 .. resolution * resolution - 1
    /\ \A f \in {CellFraction(gridQuery.x), CellFraction(gridQuery.z)} :
          JsLe(JsInt(0), f) /\ JsLe(f, JsInt(1))

\* the height lies between the least and the greatest corner height, and is
\* the node's height on a node
BetweenCorners ==
    /\ \E lo \in CornerHeights(gridQuery.reads) : JsLe(lo, gridQuery.height)
    /\ \E hi \in CornerHeights(gridQuery.reads) : JsLe(gridQuery.height, hi)
    /\ OnNode => gridQuery.height = HeightAt(heightMap, NodeIndex)

TerrainAtVertex(w) == getHeightAtPositionGrid(heightMap, resolution, w.x, w.z).height

\* C11: the road never intersects the terrain: every vertex createRoad
\* wrote is at least as high as the terrain height sampled at that
\* vertex's own (x, z) (over a grid of NaN, where no height compares, the
\* vertex and the terrain are both NaN).
C11_RoadAboveTerrain ==
    (phase = "terrain" /\ road.status = "ok") =>
        \A k \in 1 .. Len(road.writes) :
            \/ JsGe(road.writes[k].y, TerrainAtVertex(road.writes[k]))
            \/ IsNaN(road.writes[k].y) /\ IsNaN(TerrainAtVertex(road.writes[k]))

\* C13: every dash addRoadMarkings emitted has its start t and its end
\* endT inside [0,1], ends strictly before the next dash starts, and no dash
\* follows a parameter that exceeded 1.
C13_DashesWithinCurve ==
    (phase = "terrain" /\ road.status = "ok") =>
        \A k \in 1 .. Len(road.dashes) :
            LET dash == road.dashes[k]
            IN  /\ JsLe(JsInt(0), dash.t) /\ JsLe(dash.t, JsInt(1))
                /\ JsLe(JsInt(0), dash.endT) /\ JsLe(dash.endT, JsInt(1))
                /\ JsLt(dash.t, dash.endT)
                /\ k < Len(road.dashes) => JsLt(dash.endT, road.dashes[k + 1].t)
                /\ dash.i = k - 1

\* the 200 dashes of the road, the last ending short of the end of the curve
C13_Witness ==
    /\ phase = "terrain" /\ road.status = "ok"
    /\ Len(road.dashes) = numDashes
    /\ road.dashes[numDashes].endT = Num(399, 400)
    /\ road.dashes[2].t = Num(1, 200)

\* the dash starts at the curve parameter of the road sample of the write
SameParameter(dash, write) == dash.t = JsDiv(JsInt(write.i), JsInt(roadSegments))

\* C29: the lane markings lie on or above the road surface: every dash whose
\* start parameter coincides with the parameter of a road sample is at least
\* as high as the road vertices of that sample (over a grid of NaN both
\* elevations are NaN).
C29_MarkingsAboveRoad ==
    (phase = "terrain" /\ road.status = "ok") =>
        \A k \in 1 .. Len(road.dashes) :
            \A m \in 1 .. Len(road.writes) :
                SameParameter(road.dashes[k], road.writes[m]) =>
                    \/ JsGe(road.dashes[k].y, road.writes[m].y)
                    \/ IsNaN(road.dashes[k].y) /\ IsNaN(road.writes[m].y)

----------------------------------------------------------------------------
(* The ribbon builder on its inputs: control points, width, segments and   *)
(* the height field (the grid lookup, or a field that is 0 everywhere).    *)

MaxSegments == 3
MaxDashes == 2

ControlPaths ==
    { <<>>,
      << <<0, 0>> >>,
      << <<0, 0>>, <<0, 10>> >>,
      << <<0, 0>>, <<144, 192>> >>,
      << <<96, 0>>, <<-96, 0>> >>,
      << <<0, -300>>, <<0, 0>>, <<288, 84>> >> }

RoadWidths == {4, roadWidth}

BuildRibbon ==
    \E points \in ControlPaths, width \in RoadWidths,
       segments \in -1 .. MaxSegments, field \in {"flat", "grid"} :
        CreateTerrainRoad(points, width, segments, MaxDashes, field)

InitRibbon == perlin \in TerrainStubs /\ Start

NextRibbon == BuildRibbon

SpecRibbon == InitRibbon /\ [][NextRibbon]_vars

\* a ribbon built from at least two control points and at least one segment
RibbonBuilt ==
    /\ phase = "terrain" /\ road.status = "ok"
    /\ Len(roadArgs.controlPoints) >= 2 /\ roadArgs.roadSegments >= 1

\* C3: the ribbon has exactly 2 * (segments + 1) vertices; the loop over
\* i in 0 .. segments and j in 0 .. 1 writes each of them exactly once, at
\* index i * 2 + j, and never writes outside the position buffer.
C3_VertexCount ==
    RibbonBuilt =>
        LET n == 2 * (roadArgs.roadSegments + 1)
        IN  /\ road.vertexCount = n
            /\ Len(road.writes) = n
            /\ \A k \in 1 .. Len(road.writes) :
                  /\ road.writes[k].offset = 3 * (road.writes[k].i * 2 + road.writes[k].j)
                  /\ road.writes[k].offset >= 0
                  /\ road.writes[k].offset + 2 < 3 * road.vertexCount
            /\ \A v \in 0 .. n - 1 :
                  Cardinality({k \in 1 .. Len(road.writes) :
                                  road.writes[k].offset = 3 * v}) = 1

C3_Witness ==
    /\ RibbonBuilt
    /\ roadArgs.roadSegments = 3
    /\ Len(road.writes) = 8
    /\ road.writes[8].offset = 21

Square(a) == JsMul(a, a)

\* C4: the two vertices of every sample are separated by exactly the
\* ribbon width, and each lies half a width from the sampled centre point
\* along the horizontal unit normal (-tangent.z, 0, tangent.x).
C4_PairWidth ==
    RibbonBuilt =>
        \A i \in 0 .. roadArgs.roadSegments :
            LET t == JsDiv(JsInt(i), JsInt(roadArgs.roadSegments))
                point == getPoint(roadArgs.controlPoints, t)
                tangent == getTangent(roadArgs.controlPoints, t)
                half == Num(roadArgs.roadWidth, 2)
                a == road.writes[2 * i + 1]
                b == road.writes[2 * i + 2]
                along(v) == JsAdd(JsMul(JsSub(v.x, point.x), tangent.x),
                                  JsMul(JsSub(v.z, point.z), tangent.z))
                away(v) == JsAdd(Square(JsSub(v.x, point.x)), Square(JsSub(v.z, point.z)))
            IN  /\ JsAdd(Square(JsSub(b.x, a.x)), Square(JsSub(b.z, a.z)))
                     = JsInt(roadArgs.roadWidth * roadArgs.roadWidth)
                /\ a.y = b.y
                /\ JsAdd(Square(tangent.x), Square(tangent.z)) = JsInt(1)
                /\ along(a) = JsInt(0) /\ along(b) = JsInt(0)
                /\ away(a) = Square(half) /\ away(b) = Square(half)
                /\ <<a.x, a.z>> # <<b.x, b.z>>

\* a ribbon of the road's width round a corner
C4_Witness ==
    /\ RibbonBuilt
    /\ Len(roadArgs.controlPoints) = 3
    /\ roadArgs.roadSegments = 2
    /\ roadArgs.roadWidth = roadWidth
    /\ road.writes[3].x # road.writes[1].x /\ road.writes[3].z # road.writes[1].z

\* C5: building a ribbon from fewer than 2 control points or with fewer
\* than 1 segment fails with InvalidInput and produces no geometry.
C5_InvalidInputRejected ==
    (phase = "terrain"
       /\ (Len(roadArgs.controlPoints) < 2 \/ roadArgs.roadSegments < 1)) =>
        /\ road.status = "InvalidInput"
        /\ ~road.added
        /\ road.vertexCount = 0 /\ road.writes = <<>>

\* the straight path from (0,0,0) to (0,0,10), width 4, 2 segments, flat field
StraightCase ==
    /\ phase = "terrain"
    /\ roadArgs.controlPoints = << <<0, 0>>, <<0, 10>> >>
    /\ roadArgs.roadWidth = 4 /\ roadArgs.roadSegments = 2
    /\ roadArgs.field = "flat"

\* C6: in the straight case the loop emits 6 vertices, in the order
\* (x, z) = (-2,0), (2,0), (-2,5), (2,5), (-2,10), (2,10), all with y = 0.2.
C6_StraightOrder ==
    StraightCase =>
        /\ Len(road.writes) = 6
        /\ [k \in 1 .. 6 |-> <<road.writes[k].x, road.writes[k].z>>]
             = << <<JsInt(-2), JsInt(0)>>, <<JsInt(2), JsInt(0)>>,
                  <<JsInt(-2), JsInt(5)>>, <<JsInt(2), JsInt(5)>>,
                  <<JsInt(-2), JsInt(10)>>, <<JsInt(2), JsInt(10)>> >>
        /\ \A k \in 1 .. 6 : road.writes[k].y = Num(2, 10)

----------------------------------------------------------------------------
(* The direct-sampling method under the UI's season and time-of-day        *)
(* handlers.                                                               *)

DirectStep == 25
DirectRange == 1
MaxEvents == 2

DirectCoords == {JsInt(k * DirectStep) : k \in -DirectRange .. DirectRange}

DirectStubs ==
    {p \in HashStubs : p.a <= 1 /\ p.b <= 1 /\ p.c = 0}
    \cup {p \in PeakStubs : /\ p.px = 0 /\ p.py = 0 /\ p.pz = 0
                             /\ p.hi[2] = 1 /\ p.lo[2] = 1}

DirectQuery ==
    /\ \E x \in DirectCoords, z \in DirectCoords :
          directCall' = [called |-> TRUE, x |-> x, z |-> z, season |-> config.season,
                         height |-> getHeightAtPosition(perlin, config.season, x, z)]
    /\ UNCHANGED <<perlin, terrainVars, gridQuery, config, phase>>
    /\ UNCHANGED <<heightLookup, river, environment, carVars, drivingVars>>

\* a season change that also regenerates the height grid
SeasonChangeRegenerating ==
    /\ counts.events < MaxEvents
    /\ counts' = [counts EXCEPT !.events = @ + 1]
    /\ \E season \in Seasons \ {config.season} :
          /\ config' = [config EXCEPT !.season = season]
          /\ environment' = updateEnvironment(config')
    /\ heightMap' = generateHeightMap(perlin, resolution, resolution,
                                      JsAdd(hmArgs.z, JsInt(1)))
    /\ UNCHANGED <<perlin, hmArgs, resolution, roadArgs, road, gridQuery, directCall,
                   phase>>
    /\ UNCHANGED <<heightLookup, river, keys, pressed, deer, carPhysics, car, camera, carQueries,
                   toggled, drivingVars>>

SeasonChange ==
    /\ counts.events < MaxEvents
    /\ counts' = [counts EXCEPT !.events = @ + 1]
    /\ \E season \in Seasons \ {config.season} :
          /\ config' = [config EXCEPT !.season = season]
          /\ environment' = updateEnvironment(config')
    /\ UNCHANGED <<perlin, terrainVars, gridQuery, directCall, phase>>
    /\ UNCHANGED <<heightLookup, river, keys, pressed, deer, carPhysics, car, camera, carQueries,
                   toggled, drivingVars>>

TimeOfDayChange ==
    /\ counts.events < MaxEvents
    /\ counts' = [counts EXCEPT !.events = @ + 1]
    /\ \E time \in TimesOfDay \ {config.timeOfDay} :
          /\ config' = [config EXCEPT !.timeOfDay = time]
          /\ environment' = updateEnvironment(config')
    /\ UNCHANGED <<perlin, terrainVars, gridQuery, directCall, phase>>
    /\ UNCHANGED <<heightLookup, river, keys, pressed, deer, carPhysics, car, camera, carQueries,
                   toggled, drivingVars>>

InitDirect == perlin \in DirectStubs /\ Start

NextDirect == DirectQuery \/ SeasonChange \/ TimeOfDayChange

SpecDirect == InitDirect /\ [][NextDirect]_vars

\* what a call with the arguments of the latest call returns now
SameCallNow ==
    getHeightAtPosition(perlin, config.season, directCall.x, directCall.z)

NoiseSum(x, z) ==
    LET u == JsDiv(x, JsInt(100))
        v == JsDiv(z, JsInt(100))
        term(f) == JsDiv(perlin2(perlin, JsMul(u, JsInt(f)), JsMul(v, JsInt(f))),
                         JsInt(f))
    IN  JsAdd(JsAdd(term(1), term(2)), JsAdd(term(4), term(8)))

JsMax2(a, b) == IF JsLt(a, b) THEN b ELSE a

C10_FlooredWitness ==
    /\ directCall.called
    /\ directCall.season # "winter"
    /\ directCall.height = JsInt(-3)
    /\ JsLt(JsMul(JsInt(15), NoiseSum(directCall.x, directCall.z)), JsInt(-3))

----------------------------------------------------------------------------
(* A run of the program: the constructor (createTerrain, then the water    *)
(* features, the car and the controls), then animation frames and input    *)
(* events in any order.                                                    *)

MaxFrames == 1

\* frame times the clock can hand to a frame: none, and a long stall
DeltaTimes == {JsInt(0), JsInt(10)}

RunStubs == {p \in TerrainStubs : p.kind = "peak" \/ (p.a = 1 /\ p.b = 1)}

\* the keys and touches the run presses
RunKeys == {"ArrowUp", "s", " ", "h"}
RunTouches == {{}, {"forward"}, {"backward"}}

\* the flag of this.keys a keyboard key drives
KeyFlag(key) ==
    CASE key \in {"ArrowUp", "w", "W"} -> "forward"
      [] key \in {"ArrowDown", "s", "S"} -> "backward"
      [] key \in {"ArrowLeft", "a", "A"} -> "left"
      [] key \in {"ArrowRight", "d", "D"} -> "right"
      [] key = " " -> "brake"
      [] OTHER -> "none"

Event == counts.events < MaxEvents /\ counts' = [counts EXCEPT !.events = @ + 1]

\* the rest of the constructor after createTerrain
FinishConstruction ==
    /\ phase = "terrain"
    /\ phase' = "running"
    /\ river' = createRiver(RiverControlPoints)
    /\ car' = createCar(config)
    /\ carPhysics' = CarPhysics
    /\ keys' = NoKeys
    /\ pressed' = NoInput
    /\ UNCHANGED <<perlin, terrainVars, gridQuery, config, directCall, heightLookup,
                   environment, camera, carQueries, toggled, counts, deer, drivingVars>>

\* animate: a frame whose clock.getDelta() is deltaTime
Frame(deltaTime) ==
    /\ \E frame \in {updateCarPhysics(carPhysics, keys, car, heightLookup, heightMap,
                                      resolution, perlin, config.season, deltaTime)} :
          /\ carPhysics' = frame.carPhysics
          /\ car' = frame.car
          /\ camera' = frame.camera
          /\ carQueries' = frame.queries
    /\ UNCHANGED <<perlin, terrainVars, gridQuery, config, directCall, phase,
                   heightLookup, river, environment, keys, pressed, deer, toggled,
                   drivingVars>>

UpdateCarPhysics ==
    /\ phase = "running"
    /\ counts.frames < MaxFrames
    /\ \E deltaTime \in DeltaTimes :
          /\ counts' = [counts EXCEPT !.frames = @ + 1, !.deltaTime = deltaTime]
          /\ Frame(deltaTime)

\* the three effects of a toggleHeadlights call
ToggleHeadlights ==
    LET call == toggleHeadlights(config, car)
    IN  config' = call.config /\ car' = call.car /\ toggled' = call.outcome

\* the keydown listener
KeyDownOf(key) ==
    /\ pressed' = [pressed EXCEPT !.keys = @ \cup {key}]
    /\ IF key \in {"h", "H"}
       THEN ToggleHeadlights /\ UNCHANGED keys
       ELSE /\ keys' = IF KeyFlag(key) = "none" THEN keys
                       ELSE [keys EXCEPT ![KeyFlag(key)] = TRUE]
            /\ UNCHANGED <<config, car, toggled>>
    /\ UNCHANGED <<perlin, terrainVars, gridQuery, directCall, phase, heightLookup,
                   river, environment, carPhysics, camera, carQueries, deer, drivingVars>>

KeyDown == phase = "running" /\ Event /\ \E key \in RunKeys : KeyDownOf(key)

\* the keyup listener
KeyUpOf(key) ==
    /\ pressed' = [pressed EXCEPT !.keys = @ \ {key}]
    /\ keys' = IF KeyFlag(key) = "none" THEN keys
               ELSE [keys EXCEPT ![KeyFlag(key)] = FALSE]
    /\ UNCHANGED <<perlin, terrainVars, gridQuery, config, directCall, phase,
                   heightLookup, river, environment, carPhysics, car, camera,
                   carQueries, toggled, deer, drivingVars>>

\* a key is released only while it is down
KeyUp == phase = "running" /\ Event /\ \E key \in pressed.keys : KeyUpOf(key)

\* touchstart, touchmove, touchend: held is the set of zones under a finger (a
\* finger outside every zone gives the empty set)
Touch ==
    /\ phase = "running"
    /\ Event
    /\ \E held \in RunTouches :
          /\ pressed' = [pressed EXCEPT !.touches = held]
          /\ keys' = [keys EXCEPT !.forward = "forward" \in held,
                                  !.backward = "backward" \in held,
                                  !.left = "left" \in held,
                                  !.right = "right" \in held]
    /\ UNCHANGED <<perlin, terrainVars, gridQuery, config, directCall, phase,
                   heightLookup, river, environment, carPhysics, car, camera,
                   carQueries, toggled, deer, drivingVars>>

HeadlightsChange ==
    /\ phase = "running"
    /\ Event
    /\ ToggleHeadlights
    /\ UNCHANGED <<perlin, terrainVars, gridQuery, directCall, phase, heightLookup,
                   river, environment, keys, pressed, deer, carPhysics, camera, carQueries,
                   drivingVars>>

CarModelChange ==
    /\ phase = "running"
    /\ Event
    /\ \E model \in CarModels \ {config.carModel} :
          /\ config' = [config EXCEPT !.carModel = model]
          /\ car' = createCar(config')
    /\ UNCHANGED <<perlin, terrainVars, gridQuery, directCall, phase, heightLookup,
                   river, environment, keys, pressed, deer, carPhysics, camera, carQueries, toggled,
                   drivingVars>>

CarColorChange ==
    /\ phase = "running"
    /\ Event
    /\ \E color \in CarColors \ {config.carColor} :
          /\ config' = [config EXCEPT !.carColor = color]
          /\ car' = [car EXCEPT !.color = color]
    /\ UNCHANGED <<perlin, terrainVars, gridQuery, directCall, phase, heightLookup,
                   river, environment, keys, pressed, deer, carPhysics, camera, carQueries, toggled,
                   drivingVars>>

InitRun == perlin \in RunStubs /\ Start

NextRun ==
    \/ CreateTerrain \/ FinishConstruction \/ UpdateCarPhysics
    \/ KeyDown \/ KeyUp \/ Touch
    \/ (phase = "running" /\ SeasonChange) \/ (phase = "running" /\ TimeOfDayChange)
    \/ HeadlightsChange \/ CarModelChange \/ CarColorChange

SpecRun == InitRun /\ [][NextRun]_vars

\* the centreline point of sample i of a ribbon
SamplePoint(points, segments, i) == getPoint(points, JsDiv(JsInt(i), JsInt(segments)))

\* the height field at the centreline point of sample i
FieldAtSample(points, segments, i) ==
    getHeightAtPositionGrid(heightMap, resolution,
                            SamplePoint(points, segments, i).x,
                            SamplePoint(points, segments, i).z).height

\* C12: every ribbon built along a path takes the elevation of each sampled
\* pair of vertices from the height function at the sampled centreline
\* point: the road lies the clearance above it, and every river vertex lies
\* one fixed offset from the height field at its own sample point.
C12_RibbonsFollowField ==
    phase = "running" =>
        /\ \A k \in 1 .. Len(road.writes) :
              road.writes[k].y
                = JsAdd(FieldAtSample(roadArgs.controlPoints, roadArgs.roadSegments,
                                      road.writes[k].i), clearance)
        /\ \A k, m \in 1 .. Len(river.writes) :
              JsSub(river.writes[k].y,
                    FieldAtSample(RiverControlPoints, riverSegments, river.writes[k].i))
                = JsSub(river.writes[m].y,
                        FieldAtSample(RiverControlPoints, riverSegments, river.writes[m].i))

\* a query the latest frame made was answered from the grid as it is now
AnsweredFromGrid(q) ==
    q.by = "grid" =>
        q.height = getHeightAtPositionGrid(heightMap, resolution, q.x, q.z).height

\* C17: the height grid is generated once, before the first height query,
\* and no later operation writes to it, so that the grid-backed lookup
\* returns the same value for the same (x, z) throughout a run.
C17_GridWrittenOnce ==
    /\ []((Len(road.writes) > 0 \/ Len(carQueries) > 0) => heightMap # <<>>)
    /\ [][phase # "start" => (heightMap' = heightMap /\ resolution' = resolution)]_vars
    /\ [](\A k \in 1 .. Len(carQueries) : AnsweredFromGrid(carQueries[k]))

\* a frame's queries over a grid with a raised corner, and a winter set by
\* the season handler after them
C17_Witness ==
    /\ Len(carQueries) > 0
    /\ config.season = "winter"
    /\ counts.events > 0
    /\ JsLt(JsInt(0), carQueries[1].height)

\* C19: the height queries of updateCarPhysics (the car position and the
\* four tilt probes) are answered by the direct noise-evaluation method of
\* the class, not by the grid-backed lookup.
C19_CarQueriesDirect ==
    \A k \in 1 .. Len(carQueries) : carQueries[k].by = "method"

\* the headlight meshes and both spotlights are lit exactly when headlightsOn
HeadlightsConsistent ==
    /\ (car.emissiveIntensity = 1) <=> config.headlightsOn
    /\ (car.spotlightIntensity = 2) <=> config.headlightsOn
    /\ car.emissiveIntensity \in {0, 1} /\ car.spotlightIntensity \in {0, 2}

\* C20: toggleHeadlights is atomic: a call completes and leaves the flag,
\* the headlight meshes and the spotlights consistent, or fails and leaves
\* all three unchanged; the three are therefore consistent at all times.
C20_ToggleAtomic ==
    phase = "running" =>
        /\ HeadlightsConsistent
        /\ toggled \in {"none", "ok"}

\* some held input is mapped to the direction flag
InputHeld(flag) ==
    \/ \E key \in pressed.keys : KeyFlag(key) = flag
    \/ flag \in pressed.touches

\* C26: for every interleaving of keydown, keyup and touch events, each of
\* the direction flags forward, backward, left and right is true exactly
\* when at least one input mapped to it is currently held.
C26_FlagsFollowInputs ==
    phase = "running" =>
        \A flag \in {"forward", "backward", "left", "right"} :
            keys[flag] <=> InputHeld(flag)

\* the camera of the chase view of a car: ten units behind it, five above
ChaseCamera(theCar) ==
    [x |-> JsSub(theCar.position.x, JsMul(Sin(theCar.rotationY), JsInt(10))),
     y |-> JsAdd(theCar.position.y, JsInt(5)),
     z |-> JsSub(theCar.position.z, JsMul(Cos(theCar.rotationY), JsInt(10)))]

\* C27: after every updateCarPhysics call the camera sits at the car's
\* current position plus (-10 sin(heading), 5, -10 cos(heading)); its
\* height is the car's height plus 5.
C27_CameraFollowsCar ==
    [][counts'.frames # counts.frames => camera' = ChaseCamera(car')]_vars

\* C28: changing the car model replaces the car and leaves its position and
\* its heading unchanged.
C28_ModelChangeKeepsPose ==
    [][config'.carModel # config.carModel =>
          /\ car'.model = config'.carModel
          /\ car'.position = car.position
          /\ car'.rotationY = car.rotationY]_vars

----------------------------------------------------------------------------
(* DrivingSimulation: frames and key events of a drive.  A drive needs     *)
(* hundreds of frames to bring the car near the end of the road, so the    *)
(* run is taken up from the constructed simulation and from two points a   *)
(* drive reaches before any road was appended: forward held for 423        *)
(* frames (12.75 + 373 * 0.5) and backward held for 811 frames             *)
(* (-3.25 - 786 * 0.25).                                                   *)

MaxDriveFrames == 3

DriveStarts ==
    { [z |-> JsInt(0), carSpeed |-> JsInt(0), held |-> "none"],
      [z |-> Num(79700, 400), carSpeed |-> Num(1, 2), held |-> "forward"],
      [z |-> Num(-79900, 400), carSpeed |-> Num(-1, 4), held |-> "backward"] }

DriveKeys == {"ArrowUp", "ArrowDown", "ArrowLeft"}

\* the simulation at a start: the car on the road, at speed, one key held
DriveStartOf(from) ==
    [ConstructedDriving.sim EXCEPT
       !.car.z = from.z,
       !.carSpeed = from.carSpeed,
       !.keys = [k \in DOMAIN @ |-> k = from.held],
       !.enginePlaying = from.held = "forward"]

\* the constructed DrivingSimulation, taken up as one of the simulations sims
DrivingFrom(sims) ==
    /\ perlin \in {p \in RunStubs : p.kind = "peak"}
    /\ hmArgs = [width |-> 0, height |-> 0, z |-> JsInt(0)]
    /\ heightMap = <<>>
    /\ resolution = 0
    /\ gridQuery = NoQuery
    /\ roadArgs = NoRoadArgs
    /\ road = NoRoad
    /\ config = [season |-> "summer", timeOfDay |-> "afternoon",
                 headlightsOn |-> FALSE, carColor |-> "#ff0000", carModel |-> "sedan"]
    /\ directCall = NoCall
    /\ phase = "start"
    /\ heightLookup = "method"
    /\ river = NoRiver
    /\ environment = updateEnvironment(config)
    /\ keys = NoKeys
    /\ carPhysics = CarPhysics
    /\ car = NoCar
    /\ camera = [x |-> JsInt(0), y |-> JsInt(5), z |-> JsInt(-10)]
    /\ carQueries = <<>>
    /\ toggled = "none"
    /\ counts = [frames |-> 0, events |-> 0, deltaTime |-> JsInt(0)]
    /\ pressed = NoInput
    /\ deer = NoDeer
    /\ scene = ConstructedDriving.scene
    /\ driving \in sims

InitDriving == DrivingFrom({DriveStartOf(from) : from \in DriveStarts})

notDriving == <<perlin, hmArgs, heightMap, resolution, gridQuery, roadArgs, road,
                config, directCall, phase, heightLookup, river, environment, carVars>>

\* animate: updateCarPosition, then updateRoadPosition
DrivingAnimate ==
    /\ driving.frames < MaxDriveFrames
    /\ driving' = [updateCarPosition(driving) EXCEPT !.frames = @ + 1]
    /\ scene' = updateRoadPosition(driving', scene)
    /\ UNCHANGED notDriving

\* the keydown listener
DrivingKeyDownOf(key) ==
    /\ driving' = [driving EXCEPT
                     !.keys[DrivingKeyFlag[key]] = TRUE,
                     !.enginePlaying = IF DrivingKeyFlag[key] = "forward" THEN TRUE ELSE @]
    /\ UNCHANGED <<scene, notDriving>>

\* the keyup listener
DrivingKeyUpOf(key) ==
    /\ driving' = [driving EXCEPT
                     !.keys[DrivingKeyFlag[key]] = FALSE,
                     !.enginePlaying = IF DrivingKeyFlag[key] = "forward" THEN FALSE ELSE @]
    /\ UNCHANGED <<scene, notDriving>>

DrivingKeyDown == \E key \in DriveKeys : DrivingKeyDownOf(key)

DrivingKeyUp == \E key \in DriveKeys : DrivingKeyUpOf(key)

NextDriving == DrivingAnimate \/ DrivingKeyDown \/ DrivingKeyUp

SpecDriving == InitDriving /\ [][NextDriving]_vars

\* the car is beyond 40% of the road length from the origin
BeyondThreshold(sim) ==
    JsGt(JsAbs(sim.car.z), JsInt((roadSegmentLength * 4) \div 10))

\* the road meshes of a scene, in the order they were added
Roads(sc) == SelectSeq(sc, LAMBDA mesh : mesh.kind = "road")

\* C14: one road segment (with its markings) is appended per threshold
\* crossing: a frame that takes the car across the threshold appends one
\* road and one markings mesh, and a frame that starts and ends beyond the
\* threshold appends nothing.
C14_OneSegmentPerCrossing ==
    [][ /\ (~BeyondThreshold(driving) /\ BeyondThreshold(driving'))
            => Len(scene') = Len(scene) + 2
        /\ (BeyondThreshold(driving) /\ BeyondThreshold(driving'))
            => scene' = scene ]_vars

\* C15: every extension lies one road length beyond the segment added
\* before it, in the direction of travel, so that the road segments occupy
\* distinct contiguous positions.
C15_ExtensionsContiguous ==
    LET roads == Roads(scene)
        ahead == IF JsLt(driving.car.z, JsInt(0)) THEN -roadSegmentLength
                 ELSE roadSegmentLength
    IN  /\ \A k \in 2 .. Len(roads) :
              roads[k].z = JsAdd(roads[k - 1].z, JsInt(ahead))
        /\ Cardinality({roads[k].z : k \in 1 .. Len(roads)}) = Len(roads)

\* C16: road and marking meshes are never removed while driving: every
\* mesh of the scene is still in the scene after any frame or key event.
C16_RoadsNeverRemoved ==
    [][\A i \in 1 .. Len(scene) : \E j \in 1 .. Len(scene') : scene'[j] = scene[i]]_vars

\* a drive that has appended roads and markings in two frames, with the
\* first road and its markings still in the scene
C16_Witness ==
    /\ Len(scene) = 6
    /\ scene[1] = ConstructedDriving.sim.road
    /\ scene[2] = ConstructedDriving.sim.roadMarkings
    /\ driving.frames = MaxDriveFrames


----------------------------------------------------------------------------
(* The car physics of both simulations.  EnhancedDrivingSimulation is      *)
(* taken up as constructed over the terrain of the single-peak noise       *)
(* (the height map is 1 at its first node and 0 elsewhere, so the cells    *)
(* around the origin, where the car drives, are level), at rest or after   *)
(* stalled frames with one key held; DrivingSimulation as in the drives    *)
(* above.  phase tells the two apart: "running" and "start".               *)

MaxPhysicsFrames == 2

\* clock.getDelta() of a frame that follows a long stall
StallTime == JsInt(40)

PhysicsResolution == 4

PhysicsStub ==
    [kind |-> "peak", px |-> 0, py |-> 0, pz |-> 0, hi |-> JsInt(1), lo |-> JsInt(0),
     a |-> 0, b |-> 0, c |-> 0]

\* at rest; at full speed ahead; at full speed in reverse
PhysicsStarts ==
    { [key |-> "none", frames |-> 0],
      [key |-> "ArrowUp", frames |-> 2],
      [key |-> "ArrowDown", frames |-> 1] }

PhysicsKeys == {"ArrowUp", "ArrowDown", "ArrowLeft", "ArrowRight", " "}

\* the keys after the keydown of one key on the constructed simulation
KeysHeld(key) ==
    IF KeyFlag(key) = "none" THEN NoKeys ELSE [NoKeys EXCEPT ![KeyFlag(key)] = TRUE]

\* one more stalled frame after the frame before
FrameAfter(before, k, w) ==
    updateCarPhysics(before.carPhysics, k, before.car, w.lookup, w.hm, w.res, w.p,
                     w.season, StallTime)

\* the simulation after n stalled frames with the keys k held since construction
RECURSIVE FramesHeld(_, _, _, _)
FramesHeld(cfg, k, w, n) ==
    IF n = 0
    THEN [carPhysics |-> CarPhysics, car |-> createCar(cfg),
          camera |-> [x |-> JsInt(0), y |-> JsInt(5), z |-> JsInt(-10)],
          queries |-> <<>>]
    ELSE FrameAfter(FramesHeld(cfg, k, w, n - 1), k, w)

\* the terrain a frame of the constructed simulation sees
TerrainOf(p, res) ==
    [lookup |-> "grid", hm |-> generateHeightMap(p, res, res, JsInt(0)), res |-> res,
     p |-> p, season |-> "summer"]

\* the constructed simulation over the terrain of the noise p, taken up
\* from one of the starts
Constructed(p, res, starts) ==
    /\ perlin = p
    /\ hmArgs = [width |-> res, height |-> res, z |-> JsInt(0)]
    /\ heightMap = generateHeightMap(p, res, res, JsInt(0))
    /\ resolution = res
    /\ gridQuery = NoQuery
    /\ roadArgs = [controlPoints |-> RoadControlPoints, roadWidth |-> roadWidth,
                   roadSegments |-> roadSegments, field |-> "grid"]
    /\ road = createRoad(RoadControlPoints, roadWidth, roadSegments, numDashes, "grid",
                         heightMap, res)
    /\ config = [season |-> "summer", timeOfDay |-> "afternoon",
                 headlightsOn |-> FALSE, carColor |-> "#ff0000", carModel |-> "sedan"]
    /\ directCall = NoCall
    /\ phase = "running"
    /\ heightLookup = "grid"
    /\ river = createRiver(RiverControlPoints)
    /\ environment = updateEnvironment(config)
    /\ toggled = "none"
    /\ driving = ConstructedDriving.sim
    /\ scene = ConstructedDriving.scene
    /\ \E from \in starts :
          /\ keys = KeysHeld(from.key)
          /\ pressed = [keys |-> {from.key} \ {"none"}, touches |-> {}]
          /\ counts = [frames |-> 0, events |-> 0,
                       deltaTime |-> IF from.frames = 0 THEN JsInt(0) ELSE StallTime]
          /\ \E frame \in {FramesHeld(config, keys, TerrainOf(p, res), from.frames)} :
                /\ carPhysics = frame.carPhysics
                /\ car = frame.car
                /\ camera = frame.camera
                /\ carQueries = frame.queries

InitPhysics ==
    Constructed(PhysicsStub, PhysicsResolution, PhysicsStarts) /\ deer = NoDeer

PhysicsFrame ==
    /\ phase = "running"
    /\ counts.frames < MaxPhysicsFrames
    /\ \E deltaTime \in DeltaTimes :
          /\ counts' = [counts EXCEPT !.frames = @ + 1, !.deltaTime = deltaTime]
          /\ Frame(deltaTime)

PhysicsKeyDown == phase = "running" /\ Event /\ \E key \in PhysicsKeys : KeyDownOf(key)

PhysicsKeyUp == phase = "running" /\ Event /\ \E key \in pressed.keys : KeyUpOf(key)

NextPhysics ==
    \/ PhysicsFrame \/ PhysicsKeyDown \/ PhysicsKeyUp
    \/ (phase = "start" /\ DrivingAnimate)
    \/ (phase = "start" /\ DrivingKeyDown)
    \/ (phase = "start" /\ DrivingKeyUp)

SpecPhysics == (InitPhysics \/ InitDriving) /\ [][NextPhysics]_vars

\* -max / 2 <= speed <= max
WithinSpeedLimits(speed, max) ==
    /\ JsLe(JsDiv(JsSub(JsInt(0), max), JsInt(2)), speed)
    /\ JsLe(speed, max)

\* C21: after every per-frame update, whatever the keys and the frame times,
\* the car speed lies in [-maxSpeed / 2, maxSpeed]: carPhysics.speed in
\* EnhancedDrivingSimulation, carSpeed in DrivingSimulation.
C21_SpeedWithinLimits ==
    /\ phase = "running" => WithinSpeedLimits(carPhysics.speed, carPhysics.maxSpeed)
    /\ phase = "start" => WithinSpeedLimits(driving.carSpeed, driving.maxSpeed)

\* a frame that accelerated the car beyond maxSpeed left it at maxSpeed
C21_Witness ==
    /\ phase = "running" /\ counts.frames = 1 /\ counts.deltaTime = JsInt(10)
    /\ keys.forward /\ ~keys.brake
    /\ carPhysics.speed = carPhysics.maxSpeed
    /\ JsGt(car.position.z, JsInt(48))

\* the step of the model is a frame of updateCarPhysics
IsFrame == phase = "running" /\ counts'.frames # counts.frames

\* C23: while the brake key is held the magnitude of carPhysics.speed never
\* increases from one frame to the next, whatever the forward and backward
\* keys are, and a stationary car stays stationary.
C23_BrakeNeverSpeedsUp ==
    [][(IsFrame /\ keys.brake) =>
          /\ JsLe(JsAbs(carPhysics'.speed), JsAbs(carPhysics.speed))
          /\ carPhysics.speed = JsInt(0) => carPhysics'.speed = JsInt(0)]_vars

\* the brake held together with forward at full speed: 0.8 + 0.1 - 0.2
C23_Witness ==
    /\ phase = "running" /\ counts.frames = 1 /\ counts.deltaTime = JsInt(10)
    /\ keys.brake /\ keys.forward
    /\ carPhysics.speed = Num(7, 10)

\* the heading change a held turn key asks of a frame
TurnAsked(deltaTime) ==
    IF keys.left \/ keys.right THEN JsMul(carPhysics.turnSpeed, deltaTime) ELSE JsInt(0)

\* C24: the car only turns when moving: in a frame where |speed| <= 0.01
\* after clamping, car.rotation.y and the steering angle of the front wheels
\* are left unchanged whatever the left and right keys are; when moving, the
\* heading changes by turnSpeed * deltaTime forward and by half of that in
\* reverse.
C24_TurnsOnlyWhenMoving ==
    [][IsFrame =>
          IF JsLe(JsAbs(carPhysics'.speed), Num(1, 100))
          THEN car'.rotationY = car.rotationY /\ car'.steering = car.steering
          ELSE JsAbs(JsSub(car'.rotationY, car.rotationY))
                 = JsMul(TurnAsked(counts'.deltaTime),
                         IF JsGt(carPhysics'.speed, JsInt(0)) THEN JsInt(1)
                         ELSE Num(1, 2))]_vars

\* a turn in reverse: half of 0.03 * 10
C24_Witness ==
    /\ phase = "running" /\ counts.frames = 1 /\ counts.deltaTime = JsInt(10)
    /\ JsLt(carPhysics.speed, JsInt(0))
    /\ JsAbs(car.rotationY) = Num(15, 100)


----------------------------------------------------------------------------
(* Coasting.  Frames go on for ever (requestAnimationFrame), so the frames *)
(* of a coasting car are not counted; the frames of a driven car are.  The *)
(* clock hands every frame the same positive time.  The terrain is that    *)
(* of a constant noise, whose height map is NaN: the suspension step then  *)
(* leaves the car height NaN and the states of a run are finitely many.    *)

CoastTime == JsInt(30)

CoastStub == [PhysicsStub EXCEPT !.hi = JsInt(0)]

CoastKeys == {"ArrowUp", "ArrowDown", " "}

DrivingCoastKeys == {"ArrowUp", "ArrowDown"}

MaxCoastRun == 20

\* the simulation after n frames of updateCarPosition
RECURSIVE DrivenFor(_, _)
DrivenFor(sim, n) == IF n = 0 THEN sim ELSE updateCarPosition(DrivenFor(sim, n - 1))

\* at rest; after MaxCoastRun frames ahead; after MaxCoastRun frames in reverse
CoastDrives ==
    { DrivenFor(DriveStartOf([z |-> JsInt(0), carSpeed |-> JsInt(0), held |-> flag]),
                IF flag = "none" THEN 0 ELSE MaxCoastRun) :
        flag \in {"none", "forward", "backward"} }

InitCoast ==
    \/ Constructed(CoastStub, 2, PhysicsStarts) /\ deer = NoDeer
    \/ DrivingFrom(CoastDrives)

\* neither forward nor backward is pressed
Coasting == ~keys.forward /\ ~keys.backward
DrivingCoasting == ~driving.keys.forward /\ ~driving.keys.backward

CoastingFrame ==
    /\ phase = "running"
    /\ Coasting
    /\ counts' = [counts EXCEPT !.deltaTime = CoastTime]
    /\ Frame(CoastTime)

DrivenFrame ==
    /\ phase = "running"
    /\ ~Coasting
    /\ counts.frames < MaxPhysicsFrames
    /\ counts' = [counts EXCEPT !.frames = @ + 1, !.deltaTime = CoastTime]
    /\ Frame(CoastTime)

CoastKeyDown == phase = "running" /\ Event /\ \E key \in CoastKeys : KeyDownOf(key)

DrivingCoastingFrame ==
    /\ phase = "start"
    /\ DrivingCoasting
    /\ driving' = updateCarPosition(driving)
    /\ scene' = updateRoadPosition(driving', scene)
    /\ UNCHANGED notDriving

DrivingDrivenFrame == phase = "start" /\ ~DrivingCoasting /\ DrivingAnimate

\* a key goes down on the car at rest
DrivingCoastKeyDown ==
    /\ phase = "start"
    /\ driving.carSpeed = JsInt(0)
    /\ driving.frames < MaxDriveFrames
    /\ \E key \in DrivingCoastKeys : DrivingKeyDownOf(key)

DrivingCoastKeyUp ==
    phase = "start" /\ \E key \in DrivingCoastKeys : DrivingKeyUpOf(key)

NextCoast ==
    \/ CoastingFrame \/ DrivenFrame \/ CoastKeyDown \/ PhysicsKeyUp
    \/ DrivingCoastingFrame \/ DrivingDrivenFrame
    \/ DrivingCoastKeyDown \/ DrivingCoastKeyUp

\* requestAnimationFrame keeps the frames coming
SpecCoast ==
    /\ InitCoast
    /\ [][NextCoast]_vars
    /\ WF_vars(CoastingFrame)
    /\ WF_vars(DrivingCoastingFrame)

\* after is nearer to 0 than before and on the same side of it
NearerZero(before, after) ==
    /\ JsLt(JsAbs(after), JsAbs(before))
    /\ JsGt(before, JsInt(0)) => JsGe(after, JsInt(0))
    /\ JsLt(before, JsInt(0)) => JsLe(after, JsInt(0))

\* a frame of the coasting car acts as the claim says: a frame of a moving
\* car moves the car, and a step at speed 0 leaves the speed 0
CoastsDown ==
    (phase = "running" /\ Coasting) =>
        /\ (carPhysics.speed # JsInt(0) /\ car' # car) =>
              NearerZero(carPhysics.speed, carPhysics'.speed)
        /\ carPhysics.speed = JsInt(0) => carPhysics'.speed = JsInt(0)

DrivingCoastsDown ==
    (phase = "start" /\ DrivingCoasting) =>
        /\ (driving.carSpeed # JsInt(0) /\ driving'.car # driving.car) =>
              NearerZero(driving.carSpeed, driving'.carSpeed)
        /\ driving.carSpeed = JsInt(0) => driving'.carSpeed = JsInt(0)

\* C22: coasting stops the car: once neither forward nor backward is pressed
\* and stays so, the speed moves toward 0 every frame without ever changing
\* sign, reaches exactly 0 after finitely many frames of a fixed positive
\* frame time, and then stays 0 (in both simulations).
C22_CoastingStops ==
    /\ [][CoastsDown /\ DrivingCoastsDown]_vars
    /\ <>[](phase = "running" /\ Coasting) => <>[](carPhysics.speed = JsInt(0))
    /\ <>[](phase = "start" /\ DrivingCoasting) => <>[](driving.carSpeed = JsInt(0))

\* the car that was at full speed ahead has coasted to a stop
C22_Witness ==
    /\ phase = "running" /\ Coasting /\ ~keys.brake
    /\ carPhysics.speed = JsInt(0)
    /\ JsGt(car.position.z, JsInt(100))


----------------------------------------------------------------------------
(* The deer of addAnimals under updateAnimals, over the level cell of the  *)
(* single-peak terrain, the car parked where the constructor put it.       *)
(* Positions and unit vectors are kept to three decimals, lengths to two.  *)
(* anim.time is capped: a frame takes time only while the cap allows.      *)

MaxDeerTime == 1

DeerTimes == {JsInt(0), JsInt(1)}

\* the values Math.random() returns: where it decides a walk, and elsewhere
DeerChances == {JsInt(0), Num(1, 2)}
DeerDraws == {Num(2, 5), Num(1, 2)}

\* the first deer of addAnimals
DeerPlace == [x |-> JsInt(50), z |-> JsInt(100)]

\* c + (Math.random() - 0.5) * 50
Around(c, r) == JsAdd(c, JsMul(JsSub(r, Num(1, 2)), JsInt(50)))

addDeer(w, position, rx, rz, rs) ==
    [placed |-> TRUE,
     position |-> [x |-> position.x,
                   y |-> JsAdd(TerrainQuery(w, position.x, position.z).height, JsInt(2)),
                   z |-> position.z],
     animation |-> [state |-> "idle", time |-> JsInt(0),
                    moveTarget |-> [x |-> Around(position.x, rx), y |-> JsInt(0),
                                    z |-> Around(position.z, rz)],
                    moveSpeed |-> JsAdd(Num(5, 100), JsMul(rs, Num(3, 100)))]]

\* Vector3.subVectors(a, b): a - b
subVectors(a, b) == [x |-> JsSub(a.x, b.x), y |-> JsSub(a.y, b.y), z |-> JsSub(a.z, b.z)]

SquaredLength(v) == JsAdd(JsAdd(JsMul(v.x, v.x), JsMul(v.y, v.y)), JsMul(v.z, v.z))

\* Math.sqrt, to two decimals
Sqrt(a) == Num(SqrtBetween(JsFloor(JsMul(a, JsInt(10000))), 0, 32767), 100)

\* v / (length || 1)
DividedBy(v, length) ==
    [x |-> Milli(JsDiv(v.x, IF length = JsInt(0) THEN JsInt(1) ELSE length)),
     y |-> Milli(JsDiv(v.y, IF length = JsInt(0) THEN JsInt(1) ELSE length)),
     z |-> Milli(JsDiv(v.z, IF length = JsInt(0) THEN JsInt(1) ELSE length))]

\* Vector3.normalize()
normalize(v) == CHOOSE u \in {DividedBy(v, length) : length \in {Sqrt(SquaredLength(v))}} : TRUE

\* a.distanceTo(b) < limit: a vector with a component of limit or more is
\* that long, and the squares of smaller components can be summed
Within(v, limit) ==
    /\ JsLt(JsAbs(v.x), JsInt(limit))
    /\ JsLt(JsAbs(v.y), JsInt(limit))
    /\ JsLt(JsAbs(v.z), JsInt(limit))
    /\ JsLt(SquaredLength(v), JsInt(limit * limit))

distanceWithin(a, b, limit) == \E v \in {subVectors(a, b)} : Within(v, limit)

\* the idle branch: Math.random() < 0.005 starts a walk to a new target
DeerIdle(d, time, chance, rx, rz) ==
    IF JsLt(chance, Num(5, 1000))
    THEN [d EXCEPT !.animation.time = time,
                   !.animation.state = "walking",
                   !.animation.moveTarget =
                       [x |-> Around(d.position.x, rx), y |-> JsInt(0),
                        z |-> Around(d.position.z, rz)]]
    ELSE [d EXCEPT !.animation.time = time]

\* the deer runs away from a car nearer than 15
DeerFled(d, anim, at, theCar) ==
    IF distanceWithin(at, theCar.position, 15)
    THEN [d EXCEPT !.position = at,
                   !.animation =
                       [anim EXCEPT
                          !.moveTarget =
                              [x |-> JsAdd(at.x, JsMul(JsSub(at.x, theCar.position.x),
                                                        JsInt(2))),
                               y |-> JsInt(0),
                               z |-> JsAdd(at.z, JsMul(JsSub(at.z, theCar.position.z),
                                                        JsInt(2)))],
                          !.moveSpeed = Num(2, 10)]]
    ELSE [d EXCEPT !.position = at, !.animation = anim]

\* the deer is idle again within 2 of its target
DeerArrived(d, time, at, theCar) ==
    DeerFled(d,
             IF distanceWithin(at, d.animation.moveTarget, 2)
             THEN [d.animation EXCEPT !.state = "idle", !.time = JsInt(0)]
             ELSE [d.animation EXCEPT !.time = time],
             at, theCar)

\* the deer stands on the terrain under its new place
DeerStepped(d, time, w, x, z, theCar) ==
    CHOOSE after \in
        {DeerArrived(d, time, at, theCar) :
            at \in {[x |-> x, y |-> JsAdd(TerrainQuery(w, x, z).height, JsInt(2)),
                    z |-> z]}} : TRUE

\* the walking branch: a step of moveSpeed along the direction to the target
DeerWalking(d, time, w, theCar, direction) ==
    CHOOSE after \in
        {DeerStepped(d, time, w, x, z, theCar) :
            x \in {Milli(JsAdd(d.position.x, JsMul(direction.x, d.animation.moveSpeed)))},
            z \in {Milli(JsAdd(d.position.z, JsMul(direction.z, d.animation.moveSpeed)))}}
        : TRUE

updateDeer(d, theCar, w, deltaTime, chance, rx, rz) ==
    IF d.animation.state = "idle"
    THEN DeerIdle(d, JsAdd(d.animation.time, deltaTime), chance, rx, rz)
    ELSE CHOOSE after \in
             {DeerWalking(d, JsAdd(d.animation.time, deltaTime), w, theCar, direction) :
                 direction \in {normalize(subVectors(d.animation.moveTarget,
                                                     d.position))}} : TRUE

InitDeer ==
    /\ Constructed(PhysicsStub, PhysicsResolution, {[key |-> "none", frames |-> 0]})
    /\ \E rx \in DeerDraws, rz \in DeerDraws, rs \in DeerDraws :
          deer = addDeer(TerrainOf(PhysicsStub, PhysicsResolution), DeerPlace, rx, rz, rs)

\* updateAnimals(deltaTime): the scene traversal calls updateDeer
UpdateAnimals ==
    /\ phase = "running"
    /\ deer.placed
    /\ \E deltaTime \in DeerTimes, chance \in DeerChances, rx \in DeerDraws,
          rz \in DeerDraws :
          /\ deltaTime = JsInt(0) \/ JsLt(deer.animation.time, JsInt(MaxDeerTime))
          /\ deer' = updateDeer(deer, car,
                                [lookup |-> heightLookup, hm |-> heightMap,
                                 res |-> resolution, p |-> perlin,
                                 season |-> config.season],
                                deltaTime, chance, rx, rz)
    /\ UNCHANGED <<perlin, terrainVars, gridQuery, config, directCall, phase,
                   heightLookup, river, environment, keys, pressed, carPhysics, car,
                   camera, carQueries, toggled, counts, drivingVars>>

NextDeer == UpdateAnimals

\* requestAnimationFrame keeps the frames coming
SpecDeer == InitDeer /\ [][NextDeer]_vars /\ WF_vars(UpdateAnimals)

CarFar == ~distanceWithin(deer.position, car.position, 15)

\* C25: a deer that has entered the walking state eventually returns to the
\* idle state: it comes within the arrival distance 2 of its move target
\* after finitely many frames, provided the car stays more than 15 away.
C25_WalkingDeerArrives ==
    []CarFar => ((deer.animation.state = "walking") ~> (deer.animation.state = "idle"))

====
